---- MODULE Spec2Model ----
(***************************************************************************)
(* The autonomous agent runtime of celeste-cli: the Runner turn loop       *)
(* (cmd/celeste/agent), its tool dispatch and its checkpoint store.        *)
(*                                                                         *)
(* Texts that the code trims, upper-cases or searches are tuples of        *)
(* one-character strings; identifiers the code only copies and compares    *)
(* (tool names, tool_call ids, raw argument JSON) are strings.             *)
(***************************************************************************)
EXTENDS Integers, Sequences, FiniteSets, TLC

VARIABLES
    options,      \* Runner.options, as normalised by NewRunner
    state,        \* the *RunState the running invocation works on
    pc,           \* where the process is: idle | head | request | tools |
                  \* returned for the agent command, chat for the chat surface
    result,       \* runState locals result, err: what SendMessageSync returned
    toolCalls,    \* runState local: result.ToolCalls after the per-turn cap
    idx,          \* runState local: calls of toolCalls already handled
    disk,         \* the checkpoint file <run_id>.json of the run
    ret,          \* what RunGoal / Resume returned: whether a state (it is
                  \* `state`) and which error
    sent,         \* the messages handed to the provider by the latest request
    countAtSend,  \* state.ToolCallCount when that request was issued
    executed,     \* this turn's ExecuteSkill invocations and what they returned
    requests,     \* provider requests issued for the run so far, in total
    callRequests, \* provider requests issued by the current RunGoal / Resume
    entryTurn,    \* state.Turn when the current RunGoal / Resume entered runState
    lastSaved,    \* the latest CheckpointStore.Save call: its state and outcome
    saveFailed,   \* Save calls that failed so far
    resumes,      \* Resume calls so far
    resumed,      \* the checkpoint the latest Resume loaded
    store,        \* the runs directory of a CheckpointStore used on its own, and the
                  \* latest Save, Load and List on it; empty for a Runner
    chat,         \* the interactive chat surface (tui.AppModel)
    ctx,          \* the caller's context.Context: live | cancelled
    fs,           \* the file system the dev_* skills work on, and their latest call
    cmd,          \* an invocation of `celeste agent`: its mode, the eval cases and
                  \* their results, what the run returned, the exit status
    skill         \* a skills.Skill handed to ValidateSkillDefinition, and the error
                  \* that came back

vars == <<options, state, pc, result, toolCalls, idx, disk, ret, sent,
          countAtSend, executed, requests, callRequests, entryTurn, lastSaved,
          saveFailed, resumes, resumed, store, chat, ctx, fs, cmd, skill>>

(* What the Runner and the chat surface never touch. *)
Apart == <<store, ctx, fs, cmd, skill>>

----------------------------------------------------------------------------
(* Bounds *)

MaxTurnsBound == 2        \* options.MaxTurns ranges over 1..MaxTurnsBound
MaxResumes == 1           \* Resume calls in one behaviour
MaxSaveFailures == 1      \* failing checkpoint writes in one behaviour
MaxChatBatches == 2       \* tool-call batches the chat surface receives
MaxUserMessages == 2      \* messages the user sends in the chat surface
MaxSaveTurns == 1          \* max_turns of the runs whose Save calls are compared
MaxCases == 2             \* cases of an eval suite
MaxFileLen == 2           \* characters a file of the workspace grows to
MaxSaves == 3             \* Save calls on the store used on its own
MaxArgs == 2              \* arguments on a command line of run

----------------------------------------------------------------------------
(* Status values, types.go *)

StatusRunning == "running"
StatusCompleted == "completed"
StatusFailed == "failed"
StatusMaxTurnsReached == "max_turns_reached"
StatusNoProgressStopped == "no_progress_stopped"

----------------------------------------------------------------------------
(* strings.TrimSpace, strings.ToUpper, strings.Contains on character tuples *)

IsSpace(c) == c \in {" ", "\t", "\n"}

RECURSIVE TrimLeft(_)
TrimLeft(s) ==
    IF s = <<>> THEN <<>>
    ELSE IF IsSpace(Head(s)) THEN TrimLeft(Tail(s)) ELSE s

RECURSIVE TrimRight(_)
TrimRight(s) ==
    IF s = <<>> THEN <<>>
    ELSE IF IsSpace(s[Len(s)]) THEN TrimRight(SubSeq(s, 1, Len(s) - 1)) ELSE s

TrimSpace_Identity(s) == s

TrimSpace(s) == TrimRight(TrimLeft(s))

UpperOf(c) ==
    CASE c = "a" -> "A" [] c = "d" -> "D" [] c = "h" -> "H" [] c = "k" -> "K"
      [] c = "m" -> "M" [] c = "o" -> "O" [] OTHER -> c

ToUpper(s) == [i \in 1..Len(s) |-> UpperOf(s[i])]

Contains(s, sub) ==
    \E i \in 0..(Len(s) - Len(sub)) : SubSeq(s, i + 1, i + Len(sub)) = sub

----------------------------------------------------------------------------
(* Message contents.  A content is text (characters) or the JSON object     *)
(* {"error": true, "tool": ..., "message": ...}.                            *)

TextContent(s) ==
    [kind |-> "text", text |-> s, error |-> FALSE, tool |-> "", message |-> ""]

ErrorPayload(toolName, msg) ==
    [kind |-> "object", text |-> <<>>, error |-> TRUE, tool |-> toolName,
     message |-> msg]

ChatMessage(role, content, calls, callID, name) ==
    [Role |-> role, Content |-> content, ToolCalls |-> calls,
     ToolCallID |-> callID, Name |-> name]

Step(turn, type, name, content, callID) ==
    [Turn |-> turn, Type |-> type, Name |-> name, Content |-> content,
     ToolCall |-> callID]

----------------------------------------------------------------------------
(* Inputs *)

DefaultCompletionMarker == <<"O", "k", ":">>

MaxTurnsChoices == 1..MaxTurnsBound
MaxToolCallsChoices == {1, 2}
MaxNoToolTurnsChoices == {1, 2}

OptionsChoices ==
    [MaxTurns : MaxTurnsChoices,
     MaxToolCallsPerTurn : MaxToolCallsChoices,
     MaxConsecutiveNoToolTurns : MaxNoToolTurnsChoices,
     RequireCompletionMarker : BOOLEAN,
     CompletionMarker : {DefaultCompletionMarker},
     DisableCheckpoints : BOOLEAN]

Goals == {<<" ", "g", " ">>, <<" ">>}

TextMarker == <<"O", "k", ":", " ", "a">>
TextMarkerLower == <<" ", "h", " ", "o", "K", ":", "\n">>
TextPlain == <<"h", "m">>
TextBlank == <<" ">>

ArgsValid == "{\"path\":\"a\"}"
ArgsInvalid == "{\"path\":}"

ToolCallResult(id, name, arguments) ==
    [ID |-> id, Name |-> name, Arguments |-> arguments]

CallRead1 == ToolCallResult("c1", "dev_read_file", ArgsValid)
CallBad1 == ToolCallResult("c1", "dev_write_file", ArgsInvalid)
CallNope2 == ToolCallResult("c2", "nope", ArgsValid)
CallBad3 == ToolCallResult("c3", "dev_read_file", "")

(* (result, err) of llm.Client.SendMessageSync *)
ChatCompletionResult(content, calls) ==
    [nil |-> FALSE, err |-> "", Content |-> content, ToolCalls |-> calls]

RequestError(err) ==
    [nil |-> TRUE, err |-> err, Content |-> <<>>, ToolCalls |-> <<>>]

ProviderResults ==
    { ChatCompletionResult(TextMarkerLower, <<>>),
      ChatCompletionResult(TextPlain, <<>>),
      ChatCompletionResult(TextBlank, <<>>),
      ChatCompletionResult(TextMarker, <<CallRead1, CallBad1>>),
      ChatCompletionResult(<<>>, <<CallBad3, CallNope2, CallRead1>>) }

RequestErrors ==
    { RequestError("API error: status 500") }

(* What llm.Client.ExecuteSkill hands back: (execution, err). *)
NoExecution ==
    [nil |-> TRUE, Success |-> FALSE, Error |-> "",
     Result |-> [type |-> "nil", v |-> <<>>]]

Execution(success, error, res) ==
    [nil |-> FALSE, Success |-> success, Error |-> error, Result |-> res]

RegisteredSkills == {"dev_read_file", "dev_write_file"}

SkillOutcomes(toolName) ==
    IF toolName \notin RegisteredSkills
    THEN { [execution |-> NoExecution, err |-> "skill not found"] }
    ELSE { [execution |-> NoExecution, err |-> "context deadline exceeded"],
           [execution |-> NoExecution, err |-> ""],
           [execution |-> Execution(FALSE, "path escapes workspace",
                                    [type |-> "nil", v |-> <<>>]), err |-> ""],
           [execution |-> Execution(TRUE, "", [type |-> "string", v |-> <<"h", "i">>]),
            err |-> ""],
           [execution |-> Execution(TRUE, "", [type |-> "map", v |-> <<"n", ":", "2">>]),
            err |-> ""],
           [execution |-> Execution(TRUE, "", [type |-> "chan", v |-> <<>>]),
            err |-> ""] }

SaveOutcomes == {"ok", "failed", "partial"}

----------------------------------------------------------------------------
(* RunState, types.go *)

NoOptions ==
    [MaxTurns |-> 0, MaxToolCallsPerTurn |-> 0, MaxConsecutiveNoToolTurns |-> 0,
     RequireCompletionMarker |-> FALSE, CompletionMarker |-> <<>>,
     DisableCheckpoints |-> FALSE]

NilState ==
    [RunID |-> "", Goal |-> <<>>, Status |-> "", Completed |-> FALSE,
     Turn |-> 0, ConsecutiveNoToolTurns |-> 0, ToolCallCount |-> 0,
     Messages |-> <<>>, Steps |-> <<>>, LastAssistantResponse |-> <<>>,
     Error |-> "", Options |-> NoOptions]

NewRunState(goal, opts) ==
    [RunID |-> "run-1", Goal |-> goal, Status |-> StatusRunning,
     Completed |-> FALSE, Turn |-> 0, ConsecutiveNoToolTurns |-> 0,
     ToolCallCount |-> 0, Messages |-> <<>>, Steps |-> <<>>,
     LastAssistantResponse |-> <<>>, Error |-> "", Options |-> opts]

----------------------------------------------------------------------------
(* Pure helpers of runner.go *)

JsonValid(arguments) == arguments \in {ArgsValid, "{}"}

isCompletionResponse_CaseSensitive(content, opts) ==
    LET text == TrimSpace(content) IN
    IF text = <<>> THEN FALSE
    ELSE IF opts.CompletionMarker # <<>> /\ Contains(text, opts.CompletionMarker)
         THEN TRUE
         ELSE ~opts.RequireCompletionMarker

isCompletionResponse_MarkerOnly(content, opts) ==
    LET text == TrimSpace(content) IN
    IF text = <<>> THEN FALSE
    ELSE opts.CompletionMarker # <<>>
         /\ Contains(ToUpper(text), ToUpper(opts.CompletionMarker))

isCompletionResponse(content, opts) ==
    LET text == TrimSpace(content) IN
    IF text = <<>> THEN FALSE
    ELSE IF /\ opts.CompletionMarker # <<>>
            /\ Contains(ToUpper(text), ToUpper(opts.CompletionMarker))
         THEN TRUE
         ELSE ~opts.RequireCompletionMarker

buildContinuePrompt(opts) ==
    LET marker == IF opts.CompletionMarker = <<>> THEN DefaultCompletionMarker
                  ELSE opts.CompletionMarker
    IN <<"g", "o", " ", "'">> \o marker \o <<"'">>

convertToolCalls(calls) ==
    [i \in 1..Len(calls) |->
        [ID |-> calls[i].ID, Name |-> calls[i].Name,
         Arguments |-> calls[i].Arguments]]

completeState(st) == [st EXCEPT !.Status = StatusCompleted, !.Completed = TRUE]

(* json.Marshal of a handler result: an object renders as {...}, a channel *)
(* cannot be marshalled.                                                   *)
JsonMarshal(res) ==
    IF res.type = "chan"
    THEN [err |-> "json: unsupported type: chan int", text |-> <<>>]
    ELSE [err |-> "", text |-> <<"{">> \o res.v \o <<"}">>]

formatToolResult_IgnoresSuccessFlag(toolName, execution, err) ==
    IF err # "" THEN ErrorPayload(toolName, err)
    ELSE IF execution.nil THEN ErrorPayload(toolName, "nil execution result")
    ELSE IF execution.Result.type = "string" THEN TextContent(execution.Result.v)
    ELSE LET m == JsonMarshal(execution.Result) IN
         IF m.err # ""
         THEN ErrorPayload(toolName, "failed to marshal tool result: " \o m.err)
         ELSE TextContent(m.text)

formatToolResult(toolName, execution, err) ==
    IF err # "" THEN ErrorPayload(toolName, err)
    ELSE IF execution.nil THEN ErrorPayload(toolName, "nil execution result")
    ELSE IF ~execution.Success THEN ErrorPayload(toolName, execution.Error)
    ELSE IF execution.Result.type = "string" THEN TextContent(execution.Result.v)
    ELSE LET m == JsonMarshal(execution.Result) IN
         IF m.err # ""
         THEN ErrorPayload(toolName, "failed to marshal tool result: " \o m.err)
         ELSE TextContent(m.text)

StepLimit == 200

truncateForStep(content) ==
    IF content.kind # "text" THEN content
    ELSE LET t == TrimSpace(content.text) IN
         IF Len(t) > StepLimit
         THEN TextContent(SubSeq(t, 1, StepLimit) \o <<".", ".", ".">>)
         ELSE TextContent(t)

CapToolCalls_OffByOne(calls, opts) ==
    IF Len(calls) > opts.MaxToolCallsPerTurn + 1
    THEN SubSeq(calls, 1, opts.MaxToolCallsPerTurn + 1)
    ELSE calls

(* The slice toolCalls[:MaxToolCallsPerTurn] of runState. *)
CapToolCalls_LastFirst(calls, opts) ==
    LET n == IF Len(calls) > opts.MaxToolCallsPerTurn
             THEN opts.MaxToolCallsPerTurn ELSE Len(calls)
    IN [i \in 1..n |-> calls[n + 1 - i]]

CapToolCalls(calls, opts) ==
    IF Len(calls) > opts.MaxToolCallsPerTurn
    THEN SubSeq(calls, 1, opts.MaxToolCallsPerTurn)
    ELSE calls

----------------------------------------------------------------------------
(* The checkpoint file, checkpoint.go.  os.WriteFile truncates the file and *)
(* then writes: a failed write leaves the old file, or a truncated one.     *)

NoFile == [kind |-> "none", data |-> NilState]

WriteFile(file, st, outcome) ==
    CASE outcome = "ok" -> [kind |-> "ok", data |-> st]
      [] outcome = "failed" -> file
      [] outcome = "partial" -> [kind |-> "corrupt", data |-> NilState]

----------------------------------------------------------------------------
(* Conditions of Runner.runState *)

LoopGuard_OffByOne(st) == st.Turn <= st.Options.MaxTurns

(* for state.Turn < state.Options.MaxTurns *)
LoopGuard(st) == st.Turn < st.Options.MaxTurns

NoToolLimitReached_Strict(st) ==
    st.ConsecutiveNoToolTurns > st.Options.MaxConsecutiveNoToolTurns

(* if state.ConsecutiveNoToolTurns >= state.Options.MaxConsecutiveNoToolTurns *)
NoToolLimitReached(st) ==
    st.ConsecutiveNoToolTurns >= st.Options.MaxConsecutiveNoToolTurns

(* The request-error branch: state.Status, state.Error. *)
FailedState(st, err) == [st EXCEPT !.Status = StatusFailed, !.Error = err]

(* The state once the assistant message and its step are appended. *)
WithAssistant(st, r) ==
    LET last == TrimSpace(r.Content) IN
    [st EXCEPT
       !.Messages = Append(@, ChatMessage("assistant", TextContent(r.Content),
                                          convertToolCalls(r.ToolCalls), "", "")),
       !.LastAssistantResponse = last,
       !.Steps = Append(@, Step(st.Turn, "assistant", "", TextContent(last), ""))]

(* ... and, for a response without tool calls, the no-tool counter bumped. *)
WithNoToolTurn(st, r) ==
    [WithAssistant(st, r) EXCEPT !.ConsecutiveNoToolTurns = @ + 1]

(* The "continue" User message of a no-tool turn that does not end the run. *)
WithContinue(st) ==
    [st EXCEPT !.Messages = Append(@,
        ChatMessage("user", TextContent(buildContinuePrompt(st.Options)), <<>>, "", ""))]

InvalidArgumentsPayload_Empty(toolName) == TextContent(<<"{", "}">>)

(* executeToolCall: the content for arguments that are not valid JSON. *)
InvalidArgumentsPayload(toolName) ==
    ErrorPayload(toolName, "invalid tool arguments JSON")

WithToolMessage_CountsSuccessOnly(st, tc, resultContent) ==
    [st EXCEPT
       !.Steps = Append(@, Step(st.Turn, "tool", tc.Name,
                                truncateForStep(resultContent), tc.ID)),
       !.Messages = Append(@, ChatMessage("tool", resultContent, <<>>, tc.ID, tc.Name)),
       !.ToolCallCount = IF resultContent.kind = "object" THEN @ ELSE @ + 1]

(* The step and the Tool message of one handled call, and the counter. *)
WithToolMessage(st, tc, resultContent) ==
    [st EXCEPT
       !.Steps = Append(@, Step(st.Turn, "tool", tc.Name,
                                truncateForStep(resultContent), tc.ID)),
       !.Messages = Append(@, ChatMessage("tool", resultContent, <<>>, tc.ID, tc.Name)),
       !.ToolCallCount = @ + 1]

----------------------------------------------------------------------------
(* State after construction: the process is either the agent command, with *)
(* a Runner whose options NewRunner normalised and no run yet, or the      *)
(* interactive chat surface.                                               *)

NoResult == [nil |-> TRUE, err |-> "", Content |-> <<>>, ToolCalls |-> <<>>]

NoReturn == [op |-> "", hasState |-> FALSE, err |-> ""]

NoSaveYet == [called |-> FALSE, st |-> NilState, outcome |-> ""]

NoChat ==
    [messages |-> <<>>, pending |-> <<>>, inFlight |-> FALSE,
     executeCalls |-> <<>>, sendCalls |-> 0, batches |-> 0,
     mode |-> "classic", cap |-> 0, iterations |-> 0, users |-> 0, stops |-> 0]

DefaultOptions ==
    [MaxTurns |-> MaxTurnsBound, MaxToolCallsPerTurn |-> 2,
     MaxConsecutiveNoToolTurns |-> 2, RequireCompletionMarker |-> TRUE,
     CompletionMarker |-> DefaultCompletionMarker, DisableCheckpoints |-> FALSE]

----------------------------------------------------------------------------
(* CheckpointStore on its own, checkpoint.go: Save, Load and List over a    *)
(* runs directory that holds several runs.                                  *)

(* time.Time: the wall clock reading, and whether a monotonic reading is   *)
(* attached (time.Now() attaches one, the JSON form has none).              *)
Time(wall, mono) == [wall |-> wall, mono |-> mono]

After_Before(t, u) == t.wall < u.wall

(* t.After(u) *)
After(t, u) == t.wall > u.wall

(* Text as bytes: an ASCII character is one byte; "C3" "A9" are the two    *)
(* bytes of U+00E9 and "EF" "BF" "BD" the three bytes of U+FFFD.            *)
HighBytes == {"C3", "A9", "EF", "BF", "BD"}

ReplacementRune == <<"EF", "BF", "BD">>

(* The length of the longest ASCII prefix of s. *)
ASCIIPrefix(s) ==
    IF \A i \in 1..Len(s) : s[i] \notin HighBytes THEN Len(s)
    ELSE (CHOOSE i \in 1..Len(s) :
              s[i] \in HighBytes /\ \A j \in 1..(i - 1) : s[j] \notin HighBytes) - 1

(* encoding/json on a string: invalid UTF-8 bytes become U+FFFD. *)
RECURSIVE ToValidUTF8(_)
ToValidUTF8(s) ==
    LET k == ASCIIPrefix(s)
        r == SubSeq(s, k + 1, Len(s))
    IN IF r = <<>> THEN s
       ELSE SubSeq(s, 1, k) \o
            (IF Len(r) >= 2 /\ r[1] = "C3" /\ r[2] = "A9"
             THEN <<"C3", "A9">> \o ToValidUTF8(SubSeq(r, 3, Len(r)))
             ELSE IF Len(r) >= 3 /\ SubSeq(r, 1, 3) = ReplacementRune
             THEN ReplacementRune \o ToValidUTF8(SubSeq(r, 4, Len(r)))
             ELSE ReplacementRune \o ToValidUTF8(Tail(r)))

(* RunState with its timestamps. *)
WithTimes(st, created, updated) ==
    [RunID |-> st.RunID, Goal |-> st.Goal, Status |-> st.Status,
     Completed |-> st.Completed, Turn |-> st.Turn,
     ConsecutiveNoToolTurns |-> st.ConsecutiveNoToolTurns,
     ToolCallCount |-> st.ToolCallCount, Messages |-> st.Messages,
     Steps |-> st.Steps, LastAssistantResponse |-> st.LastAssistantResponse,
     Error |-> st.Error, Options |-> st.Options,
     CreatedAt |-> created, UpdatedAt |-> updated]

NoTimedState == WithTimes(NilState, Time(0, FALSE), Time(0, FALSE))

(* json.MarshalIndent(state) as json.Unmarshal reads it back: strings are   *)
(* coerced to valid UTF-8, times keep their wall clock reading only.        *)
MarshalContent(c) == [c EXCEPT !.text = ToValidUTF8(c.text)]

MarshalIndent(s) ==
    [s EXCEPT
       !.Goal = ToValidUTF8(s.Goal),
       !.LastAssistantResponse = ToValidUTF8(s.LastAssistantResponse),
       !.Messages = [i \in 1..Len(s.Messages) |->
                        [s.Messages[i] EXCEPT !.Content = MarshalContent(s.Messages[i].Content)]],
       !.Steps = [i \in 1..Len(s.Steps) |->
                     [s.Steps[i] EXCEPT !.Content = MarshalContent(s.Steps[i].Content)]],
       !.CreatedAt = Time(s.CreatedAt.wall, FALSE),
       !.UpdatedAt = Time(s.UpdatedAt.wall, FALSE)]

StampUpdatedAt_Keep(s, now) == s

(* Save: state.UpdatedAt = time.Now() *)
StampUpdatedAt(s, now) == [s EXCEPT !.UpdatedAt = now]

(* The files of the runs directory, in the order filepath.Glob lists them. *)
RunIDs == <<"a", "b", "c">>

RunIDSet == {RunIDs[i] : i \in 1..Len(RunIDs)}

(* The states handed to Save: runs of one turn with one tool call, whose    *)
(* result is short or longer than the step limit with a two-byte character  *)
(* across the limit; the caller may have set updated_at to anything.        *)
ShortResult == <<"h", "i">>

LongResult == [i \in 1..(StepLimit - 1) |-> "x"] \o <<"C3", "A9", "!">>

ToolRun(id, res) ==
    WithToolMessage(
        [NewRunState(<<"g">>, DefaultOptions) EXCEPT !.RunID = id, !.Turn = 1],
        CallRead1,
        formatToolResult(CallRead1.Name,
                         Execution(TRUE, "", [type |-> "string", v |-> res]), ""))

StoreStates ==
    { WithTimes(ToolRun("a", ShortResult), Time(0, TRUE), Time(0, TRUE)),
      WithTimes(ToolRun("a", LongResult), Time(0, TRUE), Time(0, TRUE)),
      WithTimes(ToolRun("b", ShortResult), Time(0, TRUE), Time(99, TRUE)),
      WithTimes(ToolRun("c", ShortResult), Time(0, TRUE), Time(99, TRUE)) }

ListLimits == {-1, 0, 1, 2}

NoStoredFile == [kind |-> "none", data |-> NoTimedState]

NoStoreOp ==
    [name |-> "", runID |-> "", limit |-> 0, err |-> "",
     loaded |-> NoTimedState, listed |-> <<>>]

NoStore ==
    [dir |-> [id \in RunIDSet |-> NoStoredFile],
     now |-> 1,
     saved |-> [id \in RunIDSet |-> [st |-> NoTimedState, outcome |-> ""]],
     lastSave |-> "",
     op |-> NoStoreOp]

----------------------------------------------------------------------------
(* The state after construction *)

Init ==
    /\ pc \in {"idle", "chat"}
    /\ options \in OptionsChoices
    /\ pc = "chat" => options = DefaultOptions
    /\ state = NilState
    /\ result = NoResult
    /\ toolCalls = <<>>
    /\ idx = 0
    /\ disk = NoFile
    /\ ret = NoReturn
    /\ sent = <<>>
    /\ countAtSend = 0
    /\ executed = <<>>
    /\ requests = 0
    /\ callRequests = 0
    /\ entryTurn = 0
    /\ lastSaved = NoSaveYet
    /\ saveFailed = 0
    /\ resumes = 0
    /\ resumed = NilState
    /\ store = <<>>
    /\ chat = NoChat
    /\ ctx = "live"
    /\ fs = <<>>
    /\ cmd = <<>>
    /\ skill = <<>>

----------------------------------------------------------------------------
(* CheckpointStore.Save and the places that call it *)

SaveOutcomesNow ==
    IF saveFailed < MaxSaveFailures THEN SaveOutcomes ELSE {"ok"}

Save(st, outcome) ==
    /\ disk' = WriteFile(disk, st, outcome)
    /\ lastSaved' = [called |-> TRUE, st |-> st, outcome |-> outcome]
    /\ saveFailed' = IF outcome = "ok" THEN saveFailed ELSE saveFailed + 1

NoSave == UNCHANGED <<disk, lastSaved, saveFailed>>

SaveUnlessDisabled_Never(st, outcome) == outcome = "ok" /\ NoSave

(* if !state.Options.DisableCheckpoints { r.store.Save(state) } *)
SaveUnlessDisabled(st, outcome) ==
    IF ~st.Options.DisableCheckpoints
    THEN Save(st, outcome)
    ELSE outcome = "ok" /\ NoSave

SaveFailedState_Guarded(st, outcome) == SaveUnlessDisabled(st, outcome)

(* The save of the request-error branch: _ = r.store.Save(state). *)
SaveFailedState(st, outcome) == Save(st, outcome)

Return_SaveErrorAborts(op, st, err) ==
    LET e == IF saveFailed' # saveFailed THEN "write checkpoint" ELSE err
    IN /\ ret' = [op |-> op, hasState |-> TRUE, err |-> e]
       /\ state' = IF e = err THEN st ELSE FailedState(st, e)
       /\ pc' = "returned"

Return(op, st, err) ==
    /\ ret' = [op |-> op, hasState |-> TRUE, err |-> err]
    /\ state' = st
    /\ pc' = "returned"

ReturnError(op, err) ==
    /\ ret' = [op |-> op, hasState |-> FALSE, err |-> err]
    /\ state' = NilState
    /\ pc' = "returned"

Op == IF resumes > 0 THEN "Resume" ELSE "RunGoal"

(* A new invocation starts with fresh locals. *)
FreshLocals ==
    /\ result' = NoResult
    /\ toolCalls' = <<>>
    /\ idx' = 0
    /\ sent' = <<>>
    /\ countAtSend' = 0
    /\ executed' = <<>>
    /\ callRequests' = 0

----------------------------------------------------------------------------
(* Runner.RunGoal, up to the loop head of runState *)

RunGoalEmpty(goal) ==
    /\ pc = "idle"
    /\ TrimSpace(goal) = <<>>
    /\ ReturnError("RunGoal", "goal is required")
    /\ NoSave
    /\ UNCHANGED <<options, result, toolCalls, idx, sent, countAtSend,
                   executed, requests, callRequests, entryTurn,
                   resumes, chat, resumed, Apart>>

RunGoal(goal) ==
    /\ pc = "idle"
    /\ TrimSpace(goal) # <<>>
    /\ LET g == TrimSpace(goal)
           st0 == NewRunState(g, options)
           st == [st0 EXCEPT
                    !.Messages = Append(@, ChatMessage("user", TextContent(g), <<>>, "", "")),
                    !.Steps = Append(@, Step(0, "goal", "", TextContent(g), ""))]
       IN /\ state' = st
          /\ entryTurn' = st.Turn
          /\ \E o \in SaveOutcomesNow : SaveUnlessDisabled(st, o)
    /\ pc' = "head"
    /\ FreshLocals
    /\ UNCHANGED <<options, ret, requests, resumes, chat, resumed, Apart>>

(* CheckpointStore.Load *)
LoadError_Same(runID, file) ==
    IF runID = "" THEN "run id is required"
    ELSE IF file.kind # "ok" THEN "read checkpoint"
    ELSE ""

(* The error Load returns, "" for none: the file is missing, or it does   *)
(* not parse.                                                              *)
LoadError(runID, file) ==
    IF runID = "" THEN "run id is required"
    ELSE IF file.kind = "none" THEN "read checkpoint"
    ELSE IF file.kind = "corrupt" THEN "parse checkpoint"
    ELSE ""

(* Runner.Resume *)
ResumeLoadFails ==
    /\ pc \in {"idle", "returned"}
    /\ resumes < MaxResumes
    /\ LoadError("run-1", disk) # ""
    /\ resumes' = resumes + 1
    /\ ReturnError("Resume", LoadError("run-1", disk))
    /\ entryTurn' = 0
    /\ resumed' = NilState
    /\ FreshLocals
    /\ NoSave
    /\ UNCHANGED <<options, requests, chat, Apart>>

Rehydrate_Restart(loaded, opts) == [loaded EXCEPT !.Turn = 0]

(* Resume, on the state Load returned: an empty completion marker is      *)
(* replaced by the Runner's.                                               *)
Rehydrate(loaded, opts) ==
    IF loaded.Options.CompletionMarker = <<>>
    THEN [loaded EXCEPT !.Options.CompletionMarker = opts.CompletionMarker]
    ELSE loaded

Resume ==
    /\ pc \in {"idle", "returned"}
    /\ resumes < MaxResumes
    /\ LoadError("run-1", disk) = ""
    /\ resumes' = resumes + 1
    /\ resumed' = disk.data
    /\ LET st == Rehydrate(disk.data, options)
       IN /\ state' = st
          /\ entryTurn' = st.Turn
          /\ \E o \in SaveOutcomesNow : SaveUnlessDisabled(st, o)
    /\ pc' = "head"
    /\ FreshLocals
    /\ UNCHANGED <<options, ret, requests, chat, Apart>>

----------------------------------------------------------------------------
(* Runner.runState: the loop head *)

SendRequest ==
    /\ pc = "head"
    /\ LoopGuard(state)
    /\ state' = [state EXCEPT !.Turn = @ + 1, !.Status = StatusRunning]
    /\ pc' = "request"
    /\ sent' = state.Messages
    /\ countAtSend' = state.ToolCallCount
    /\ executed' = <<>>
    /\ requests' = requests + 1
    /\ callRequests' = callRequests + 1
    /\ result' = NoResult
    /\ toolCalls' = <<>>
    /\ idx' = 0
    /\ NoSave
    /\ UNCHANGED <<options, ret, entryTurn, resumes, chat, resumed, Apart>>

MaxTurnsReached_KeepsStatus ==
    /\ pc = "head"
    /\ ~LoopGuard(state)
    /\ \E o \in SaveOutcomesNow : SaveUnlessDisabled(state, o)
    /\ Return(Op, state, "")
    /\ UNCHANGED <<options, result, toolCalls, idx, sent, countAtSend, executed,
                   requests, callRequests, entryTurn, resumes, chat,
                   resumed, Apart>>

MaxTurnsReached ==
    /\ pc = "head"
    /\ ~LoopGuard(state)
    /\ LET st == [state EXCEPT !.Status = StatusMaxTurnsReached, !.Completed = TRUE]
       IN /\ \E o \in SaveOutcomesNow : SaveUnlessDisabled(st, o)
          /\ Return(Op, st, "")
    /\ UNCHANGED <<options, result, toolCalls, idx, sent, countAtSend, executed,
                   requests, callRequests, entryTurn, resumes, chat,
                   resumed, Apart>>

----------------------------------------------------------------------------
(* Runner.runState: the provider answers the request of this turn *)

RequestFails(r) ==
    /\ pc = "request"
    /\ LET st == FailedState(state, r.err)
       IN /\ \E o \in SaveOutcomesNow : SaveFailedState(st, o)
          /\ Return(Op, st, r.err)
    /\ result' = r
    /\ UNCHANGED <<options, toolCalls, idx, sent, countAtSend, executed,
                   requests, callRequests, entryTurn, resumes, chat,
                   resumed, Apart>>

Complete(r) ==
    /\ pc = "request"
    /\ Len(r.ToolCalls) = 0
    /\ LET st1 == WithNoToolTurn(state, r) IN
       /\ isCompletionResponse(st1.LastAssistantResponse, st1.Options)
       /\ LET st == completeState(st1)
          IN /\ \E o \in SaveOutcomesNow : SaveUnlessDisabled(st, o)
             /\ Return(Op, st, "")
    /\ result' = r
    /\ UNCHANGED <<options, toolCalls, idx, sent, countAtSend, executed,
                   requests, callRequests, entryTurn, resumes, chat,
                   resumed, Apart>>

NoProgressStop(r) ==
    /\ pc = "request"
    /\ Len(r.ToolCalls) = 0
    /\ LET st1 == WithNoToolTurn(state, r) IN
       /\ ~isCompletionResponse(st1.LastAssistantResponse, st1.Options)
       /\ NoToolLimitReached(st1)
       /\ LET st == [st1 EXCEPT !.Status = StatusNoProgressStopped, !.Completed = TRUE]
          IN /\ \E o \in SaveOutcomesNow : SaveUnlessDisabled(st, o)
             /\ Return(Op, st, "")
    /\ result' = r
    /\ UNCHANGED <<options, toolCalls, idx, sent, countAtSend, executed,
                   requests, callRequests, entryTurn, resumes, chat,
                   resumed, Apart>>

ContinuePrompt(r) ==
    /\ pc = "request"
    /\ Len(r.ToolCalls) = 0
    /\ LET st1 == WithNoToolTurn(state, r) IN
       /\ ~isCompletionResponse(st1.LastAssistantResponse, st1.Options)
       /\ ~NoToolLimitReached(st1)
       /\ LET st == WithContinue(st1)
          IN /\ \E o \in SaveOutcomesNow : SaveUnlessDisabled(st, o)
             /\ state' = st
    /\ result' = r
    /\ pc' = "head"
    /\ UNCHANGED <<options, toolCalls, idx, ret, sent, countAtSend, executed,
                   requests, callRequests, entryTurn, resumes, chat,
                   resumed, Apart>>

BeginToolCalls(r) ==
    /\ pc = "request"
    /\ Len(r.ToolCalls) # 0
    /\ LET st1 == WithAssistant(state, r) IN
       /\ state' = [st1 EXCEPT !.ConsecutiveNoToolTurns = 0]
       /\ toolCalls' = CapToolCalls(r.ToolCalls, st1.Options)
    /\ result' = r
    /\ idx' = 0
    /\ pc' = "tools"
    /\ NoSave
    /\ UNCHANGED <<options, ret, sent, countAtSend, executed, requests,
                   callRequests, entryTurn, resumes, chat, resumed, Apart>>

----------------------------------------------------------------------------
(* Runner.executeToolCall, once per call of the capped list, in order *)

ExecuteToolCallInvalidArgs ==
    /\ pc = "tools"
    /\ idx < Len(toolCalls)
    /\ LET tc == toolCalls[idx + 1] IN
       /\ ~JsonValid(tc.Arguments)
       /\ state' = WithToolMessage(state, tc, InvalidArgumentsPayload(tc.Name))
    /\ idx' = idx + 1
    /\ NoSave
    /\ UNCHANGED <<options, pc, result, toolCalls, ret, sent, countAtSend,
                   executed, requests, callRequests, entryTurn,
                   resumes, chat, resumed, Apart>>

ExecuteToolCall ==
    /\ pc = "tools"
    /\ idx < Len(toolCalls)
    /\ LET tc == toolCalls[idx + 1] IN
       /\ JsonValid(tc.Arguments)
       /\ \E outcome \in SkillOutcomes(tc.Name) :
             /\ executed' = Append(executed,
                    [name |-> tc.Name, arguments |-> tc.Arguments, at |-> idx + 1,
                     outcome |-> outcome])
             /\ state' = WithToolMessage(state, tc,
                            formatToolResult(tc.Name, outcome.execution, outcome.err))
    /\ idx' = idx + 1
    /\ NoSave
    /\ UNCHANGED <<options, pc, result, toolCalls, ret, sent, countAtSend,
                   requests, callRequests, entryTurn, resumes, chat,
                   resumed, Apart>>

(* After the last call of the turn: checkpoint, back to the loop head. *)
EndTurn ==
    /\ pc = "tools"
    /\ idx = Len(toolCalls)
    /\ \E o \in SaveOutcomesNow : SaveUnlessDisabled(state, o)
    /\ pc' = "head"
    /\ UNCHANGED <<options, state, result, toolCalls, idx, ret, sent,
                   countAtSend, executed, requests, callRequests, entryTurn,
                   resumes, chat, resumed, Apart>>

----------------------------------------------------------------------------
(* The interactive chat surface: AppModel.Update on SkillCallBatchMsg and   *)
(* on SkillResultMsg, as the tests of package tui drive it.                 *)

SkillCallRequest(name, callID, parseError) ==
    [Name |-> name, ToolCallID |-> callID, ParseError |-> parseError]

SkillCallBatchMsg(calls) ==
    [Calls |-> calls, AssistantContent |-> <<"t">>,
     ToolCalls |-> [i \in 1..Len(calls) |->
                      [ID |-> calls[i].ToolCallID, Name |-> calls[i].Name,
                       Arguments |-> IF calls[i].ParseError = "" THEN "{\"x\":\"1\"}"
                                     ELSE "{\"bad\":}"]]]

ParseErrorText == "invalid character '}' looking for beginning of object key string"

ChatBatches ==
    { SkillCallBatchMsg(<<SkillCallRequest("tool_a", "call_a", ""),
                          SkillCallRequest("tool_b", "call_b", "")>>),
      SkillCallBatchMsg(<<SkillCallRequest("tool_a", "call_bad", ParseErrorText)>>),
      SkillCallBatchMsg(<<SkillCallRequest("tool_a", "call_bad", ParseErrorText),
                          SkillCallRequest("tool_b", "call_b", "")>>) }

ChatSkillResults ==
    { TextContent(<<"{", "o", "k", "}">>), ErrorPayload("", "skill failed") }

ChatStartCall_WholeBatch(c, calls) ==
    c.executeCalls \o
       [i \in 1..Len(calls) |-> [name |-> calls[i].Name, toolCallID |-> calls[i].ToolCallID]]

(* Starting the call at the head of the batch: ExecuteSkill, unless its    *)
(* arguments failed to parse.                                              *)
ChatStartCall(c, calls) ==
    IF calls = <<>> \/ calls[1].ParseError # ""
    THEN c.executeCalls
    ELSE Append(c.executeCalls, [name |-> calls[1].Name, toolCallID |-> calls[1].ToolCallID])

ChatBatch_NoCap(b) ==
    /\ pc = "chat"
    /\ ~chat.inFlight
    /\ chat.batches < MaxChatBatches
    /\ chat' = [chat EXCEPT
          !.messages = Append(@, ChatMessage("assistant", TextContent(b.AssistantContent),
                                             b.ToolCalls, "", "")),
          !.pending = b.Calls,
          !.inFlight = TRUE,
          !.executeCalls = ChatStartCall(chat, b.Calls),
          !.iterations = @ + 1,
          !.batches = @ + 1]
    /\ UNCHANGED <<options, state, pc, result, toolCalls, idx, disk, ret, sent,
                   countAtSend, executed, requests, callRequests, entryTurn,
                   lastSaved, saveFailed, resumes, resumed, Apart>>

ChatBatch(b) ==
    /\ pc = "chat"
    /\ ~chat.inFlight
    /\ chat.batches < MaxChatBatches
    /\ chat.mode = "claw" => chat.iterations < chat.cap
    /\ chat' = [chat EXCEPT
          !.messages = Append(@, ChatMessage("assistant", TextContent(b.AssistantContent),
                                             b.ToolCalls, "", "")),
          !.pending = b.Calls,
          !.inFlight = TRUE,
          !.executeCalls = ChatStartCall(chat, b.Calls),
          !.iterations = @ + 1,
          !.batches = @ + 1]
    /\ NoSave
    /\ UNCHANGED <<options, state, pc, result, toolCalls, idx, ret, sent,
                   countAtSend, executed, requests, callRequests,
                   entryTurn, resumes, resumed, Apart>>

ChatSkillResult ==
    /\ pc = "chat"
    /\ chat.inFlight
    /\ LET call == chat.pending[1]
           rest == Tail(chat.pending)
       IN \E res \in ChatSkillResults :
            /\ call.ParseError # "" => res = ErrorPayload("", "skill failed")
            /\ LET content ==
                     IF call.ParseError # "" THEN ErrorPayload(call.Name, call.ParseError)
                     ELSE IF res.kind = "object" THEN ErrorPayload(call.Name, res.message)
                     ELSE res
               IN chat' = [chat EXCEPT
                     !.messages = Append(@, ChatMessage("tool", content, <<>>,
                                                        call.ToolCallID, call.Name)),
                     !.pending = rest,
                     !.inFlight = (rest # <<>>),
                     !.executeCalls = ChatStartCall(chat, rest),
                     !.sendCalls = IF rest = <<>> THEN @ + 1 ELSE @]
    /\ NoSave
    /\ UNCHANGED <<options, state, pc, result, toolCalls, idx, ret, sent,
                   countAtSend, executed, requests, callRequests,
                   entryTurn, resumes, resumed, Apart>>

----------------------------------------------------------------------------

Next ==
    \/ \E goal \in Goals : RunGoalEmpty(goal)
    \/ \E goal \in Goals : RunGoal(goal)
    \/ ResumeLoadFails
    \/ Resume
    \/ SendRequest
    \/ MaxTurnsReached
    \/ \E r \in RequestErrors : RequestFails(r)
    \/ \E r \in ProviderResults : Complete(r)
    \/ \E r \in ProviderResults : NoProgressStop(r)
    \/ \E r \in ProviderResults : ContinuePrompt(r)
    \/ \E r \in ProviderResults : BeginToolCalls(r)
    \/ ExecuteToolCallInvalidArgs
    \/ ExecuteToolCall
    \/ EndTurn
    \/ \E b \in ChatBatches : ChatBatch(b)
    \/ ChatSkillResult

Spec == Init /\ [][Next]_vars

----------------------------------------------------------------------------
(* CheckpointStore.Save, Load and List on the runs directory *)

(* os.WriteFile on one file of the directory. *)
WriteStoredFile(file, data, outcome) ==
    CASE outcome = "ok" -> [kind |-> "ok", data |-> data]
      [] outcome = "failed" -> file
      [] outcome = "partial" -> [kind |-> "corrupt", data |-> NoTimedState]

RunSummary(st) ==
    [RunID |-> st.RunID, Goal |-> st.Goal, Status |-> st.Status,
     UpdatedAt |-> st.UpdatedAt, Turn |-> st.Turn, ToolCalls |-> st.ToolCallCount]

(* The summaries of the files that can be read and decoded, in Glob order. *)
Decoded(dir) ==
    LET ok == SelectSeq(RunIDs, LAMBDA id : dir[id].kind = "ok")
    IN [i \in 1..Len(ok) |-> RunSummary(dir[ok[i]].data)]

ByUpdatedAt_Ascending(a, b) == After_Before(a.UpdatedAt, b.UpdatedAt)

(* List's less function: summaries[i].UpdatedAt.After(summaries[j].UpdatedAt) *)
ByUpdatedAt(a, b) == After(a.UpdatedAt, b.UpdatedAt)

(* sort.Slice(summaries, less): some permutation with no pair out of order. *)
SortSlice(seq) ==
    LET n == Len(seq)
        perms == {p \in [1..n -> 1..n] : \A i, j \in 1..n : i # j => p[i] # p[j]}
        sorted(p) == \A i, j \in 1..n : i < j => ~ByUpdatedAt(seq[p[j]], seq[p[i]])
        p == CHOOSE q \in perms : sorted(q)
    IN [i \in 1..n |-> seq[p[i]]]

(* if limit > 0 && len(summaries) > limit { summaries = summaries[:limit] } *)
Truncate(seq, limit) ==
    IF limit > 0 /\ Len(seq) > limit THEN SubSeq(seq, 1, limit) ELSE seq

LoadIDs == RunIDSet \cup {""}

StoreInit ==
    /\ pc = "store"
    /\ options = DefaultOptions
    /\ state = NilState
    /\ result = NoResult
    /\ toolCalls = <<>>
    /\ idx = 0
    /\ disk = NoFile
    /\ ret = NoReturn
    /\ sent = <<>>
    /\ countAtSend = 0
    /\ executed = <<>>
    /\ requests = 0
    /\ callRequests = 0
    /\ entryTurn = 0
    /\ lastSaved = NoSaveYet
    /\ saveFailed = 0
    /\ resumes = 0
    /\ resumed = NilState
    /\ chat = NoChat
    /\ ctx = "live"
    /\ fs = <<>>
    /\ cmd = <<>>
    /\ skill = <<>>
    /\ store = NoStore

RunnerVars ==
    <<options, state, pc, result, toolCalls, idx, disk, ret, sent, countAtSend,
      executed, requests, callRequests, entryTurn, lastSaved, saveFailed,
      resumes, resumed, chat>>

(* CheckpointStore.Save *)
StoreSave(s, outcome) ==
    /\ pc = "store"
    /\ store.now <= MaxSaves
    /\ LET stamped == StampUpdatedAt(s, Time(store.now, TRUE))
           id == s.RunID
       IN store' = [store EXCEPT
             !.dir[id] = WriteStoredFile(@, MarshalIndent(stamped), outcome),
             !.now = @ + 1,
             !.saved[id] = [st |-> stamped, outcome |-> outcome],
             !.lastSave = id,
             !.op = [NoStoreOp EXCEPT !.name = "Save", !.runID = id,
                        !.err = IF outcome = "ok" THEN "" ELSE "write checkpoint"]]
    /\ UNCHANGED <<RunnerVars, ctx, fs, cmd, skill>>

(* CheckpointStore.Load *)
StoreLoad(runID) ==
    /\ pc = "store"
    /\ LET file == IF runID = "" THEN NoStoredFile ELSE store.dir[runID]
           err == LoadError(runID, file)
       IN store' = [store EXCEPT
             !.op = [NoStoreOp EXCEPT !.name = "Load", !.runID = runID, !.err = err,
                        !.loaded = IF err = "" THEN file.data ELSE NoTimedState]]
    /\ UNCHANGED <<RunnerVars, ctx, fs, cmd, skill>>

(* CheckpointStore.List *)
StoreList(limit) ==
    /\ pc = "store"
    /\ store' = [store EXCEPT
          !.op = [NoStoreOp EXCEPT !.name = "List", !.limit = limit,
                     !.listed = Truncate(SortSlice(Decoded(store.dir)), limit)]]
    /\ UNCHANGED <<RunnerVars, ctx, fs, cmd, skill>>

StoreNext ==
    \/ \E s \in StoreStates, o \in SaveOutcomes : StoreSave(s, o)
    \/ \E id \in LoadIDs : StoreLoad(id)
    \/ \E limit \in ListLimits : StoreList(limit)

StoreSpec == StoreInit /\ [][StoreNext]_vars

----------------------------------------------------------------------------
(* The runs RunGoal starts, of at most MaxSaveTurns turns: the runs whose   *)
(* checkpoint writes are compared with writes that succeed.                 *)

SaveInit ==
    /\ Init
    /\ pc = "idle"
    /\ options.MaxTurns <= MaxSaveTurns

SaveNext ==
    \/ \E goal \in Goals : RunGoalEmpty(goal)
    \/ \E goal \in Goals : RunGoal(goal)
    \/ SendRequest
    \/ MaxTurnsReached
    \/ \E r \in RequestErrors : RequestFails(r)
    \/ \E r \in ProviderResults : Complete(r)
    \/ \E r \in ProviderResults : NoProgressStop(r)
    \/ \E r \in ProviderResults : ContinuePrompt(r)
    \/ \E r \in ProviderResults : BeginToolCalls(r)
    \/ ExecuteToolCallInvalidArgs
    \/ ExecuteToolCall
    \/ EndTurn

SaveSpec == SaveInit /\ [][SaveNext]_vars

----------------------------------------------------------------------------
(* The caller cancels the context it handed to RunGoal / Resume            *)

(* context.Canceled.Error() *)
Canceled == "context canceled"

(* The context is cancelled while SendMessageSync (runner.go:178) or an     *)
(* executeToolCall of the dispatch loop (runner.go:246) is running.        *)
Cancel ==
    /\ ctx = "live"
    /\ \/ pc = "request"
       \/ pc = "tools" /\ idx < Len(toolCalls)
    /\ ctx' = "cancelled"
    /\ UNCHANGED <<RunnerVars, store, fs, cmd, skill>>

(* SendMessageSync under a cancelled context returns its error. *)
RequestCancelled ==
    /\ ctx = "cancelled"
    /\ RequestFails(RequestError(Canceled))

(* ExecuteSkill under a cancelled context: the call is cut short with the   *)
(* context's error. A handler that does not watch the context, as          *)
(* devRunCommandHandler with its own context.Background(), runs to its end *)
(* instead: that is ExecuteToolCall.                                       *)
ExecuteToolCallCancelled ==
    /\ ctx = "cancelled"
    /\ pc = "tools"
    /\ idx < Len(toolCalls)
    /\ LET tc == toolCalls[idx + 1]
           outcome == [execution |-> NoExecution, err |-> Canceled]
       IN /\ JsonValid(tc.Arguments)
          /\ executed' = Append(executed,
                 [name |-> tc.Name, arguments |-> tc.Arguments, at |-> idx + 1,
                  outcome |-> outcome])
          /\ state' = WithToolMessage(state, tc,
                         formatToolResult(tc.Name, outcome.execution, outcome.err))
    /\ idx' = idx + 1
    /\ NoSave
    /\ UNCHANGED <<options, pc, result, toolCalls, ret, sent, countAtSend,
                   requests, callRequests, entryTurn, resumes, chat,
                   resumed, Apart>>

(* Once the context is cancelled runState goes on as its code says: the    *)
(* rest of the dispatch loop, the end-of-turn save, the loop head.          *)
NextOrCancel ==
    \/ ctx = "live" /\ Next
    \/ Cancel
    \/ RequestCancelled
    \/ ExecuteToolCallCancelled
    \/ ctx = "cancelled" /\ ExecuteToolCall
    \/ ctx = "cancelled" /\ ExecuteToolCallInvalidArgs
    \/ ctx = "cancelled" /\ EndTurn
    \/ ctx = "cancelled" /\ SendRequest
    \/ ctx = "cancelled" /\ MaxTurnsReached

CancelSpec == Init /\ [][NextOrCancel]_vars

----------------------------------------------------------------------------
(* Properties *)

(* The Tool messages appended so far in the turn whose result is `result`: *)
(* whatever follows the turn's Assistant message.                          *)
TurnToolMessages == SubSeq(state.Messages, Len(sent) + 2, Len(state.Messages))

(* The turn of `result` is a tool turn, in progress or just finished. *)
InToolTurn == ~result.nil /\ Len(result.ToolCalls) > 0

(* The calls of the current tool turn handled so far. *)
Handled == IF pc = "tools" THEN idx ELSE Len(toolCalls)

(* Every Assistant message of msgs with n >= 1 tool_calls is followed by   *)
(* exactly n Tool messages carrying the ids of those calls, in order.      *)
Paired(msgs) ==
    \A i \in 1..Len(msgs) :
        (msgs[i].Role = "assistant" /\ Len(msgs[i].ToolCalls) >= 1) =>
            LET n == Len(msgs[i].ToolCalls) IN
            /\ i + n <= Len(msgs)
            /\ \A j \in 1..n :
                  /\ msgs[i + j].Role = "tool"
                  /\ msgs[i + j].ToolCallID = msgs[i].ToolCalls[j].ID
            /\ (i + n + 1 <= Len(msgs)) => msgs[i + n + 1].Role # "tool"

(* C1: whenever the Runner issues a provider request, and in every RunState *)
(* it returns, each Assistant message with n >= 1 tool_calls is immediately *)
(* followed by exactly n Tool messages with the ids of those calls, in      *)
(* order.                                                                   *)
C1_ToolCallsPaired ==
    /\ pc = "request" => Paired(sent)
    /\ (pc = "returned" /\ ret.hasState) => Paired(state.Messages)

ValidCalls(calls) ==
    SelectSeq([i \in 1..Len(calls) |->
                  [name |-> calls[i].Name, arguments |-> calls[i].Arguments, at |-> i]],
              LAMBDA c : JsonValid(c.arguments))

ExecutedCalls ==
    [i \in 1..Len(executed) |->
        [name |-> executed[i].name, arguments |-> executed[i].arguments,
         at |-> executed[i].at]]

(* C2: when the provider returns more than K = max_tool_calls_per_turn     *)
(* calls, the calls handled in the turn are a prefix of the first K in the  *)
(* order returned - all K once the turn is over - one Tool message each,    *)
(* tool_call_count has grown by exactly that many, and no call beyond the   *)
(* first K reaches ExecuteSkill.                                            *)
C2_CapDispatch ==
    (InToolTurn /\ Len(result.ToolCalls) > state.Options.MaxToolCallsPerTurn) =>
        LET K == state.Options.MaxToolCallsPerTurn
            done == IF pc = "tools" THEN idx ELSE K
            tm == TurnToolMessages
        IN /\ done <= K
           /\ Len(tm) = done
           /\ \A j \in 1..done :
                 /\ tm[j].Role = "tool"
                 /\ tm[j].ToolCallID = result.ToolCalls[j].ID
                 /\ tm[j].Name = result.ToolCalls[j].Name
           /\ state.ToolCallCount = countAtSend + done
           /\ ExecutedCalls = ValidCalls(SubSeq(result.ToolCalls, 1, done))

C2_Witness ==
    /\ pc = "head"
    /\ InToolTurn
    /\ Len(result.ToolCalls) = state.Options.MaxToolCallsPerTurn + 1
    /\ state.ToolCallCount = countAtSend + state.Options.MaxToolCallsPerTurn
    /\ Len(executed) >= 1

(* C3, as stated: turn never exceeds max_turns and, "equivalently", the    *)
(* run never issues more than max_turns provider requests in total.        *)
C3_AtMostMaxTurnsRequests ==
    /\ state.Turn <= state.Options.MaxTurns
    /\ requests <= options.MaxTurns

(* C3, amended: turn never exceeds max_turns, and one RunGoal or Resume    *)
(* issues exactly turn - t requests, hence at most max_turns - t, where t  *)
(* is the turn of the state it started from.                               *)
C3_TurnWithinMax ==
    /\ state.Turn <= state.Options.MaxTurns
    /\ callRequests = state.Turn - entryTurn
    /\ callRequests <= options.MaxTurns - entryTurn

C3_Witness ==
    /\ pc = "returned"
    /\ resumes >= 1
    /\ entryTurn >= 1
    /\ callRequests >= 1
    /\ state.Turn = state.Options.MaxTurns
    /\ state.Status = StatusMaxTurnsReached

(* Case-insensitive substring, stated without the code's upper-casing. *)
LowerOf(c) ==
    CASE c = "A" -> "a" [] c = "D" -> "d" [] c = "H" -> "h" [] c = "I" -> "i"
      [] c = "K" -> "k" [] c = "M" -> "m" [] c = "O" -> "o" [] OTHER -> c

ContainsFold(text, sub) ==
    \E i \in 0..(Len(text) - Len(sub)) :
        \A k \in 1..Len(sub) : LowerOf(text[i + k]) = LowerOf(sub[k])

(* The response of the turn, once the Runner has acted on it. *)
Answered == ~result.nil
NoToolResponse == Answered /\ Len(result.ToolCalls) = 0

(* C4: with require_completion_marker, the turn ends the run as completed  *)
(* exactly when the response has no tool calls and its trimmed text holds   *)
(* the marker, compared case-insensitively; the completed state carries the *)
(* trimmed text as last_assistant_response and the tool_call_count the turn *)
(* started with.                                                            *)
C4_MarkerCompletion ==
    (Answered /\ state.Options.RequireCompletionMarker) =>
        /\ (state.Status = StatusCompleted) <=>
              /\ Len(result.ToolCalls) = 0
              /\ ContainsFold(TrimSpace(result.Content), state.Options.CompletionMarker)
        /\ state.Status = StatusCompleted =>
              /\ pc = "returned" /\ ret.hasState /\ ret.err = ""
              /\ state.Completed
              /\ state.LastAssistantResponse = TrimSpace(result.Content)
              /\ state.ToolCallCount = countAtSend

C4_Witness ==
    /\ state.Options.RequireCompletionMarker
    /\ pc = "returned"
    /\ state.Status = StatusCompleted
    /\ result.Content = TextMarkerLower
    /\ state.LastAssistantResponse = <<"h", " ", "o", "K", ":">>
    /\ state.Turn = 2

(* C5, as stated: without require_completion_marker every response without *)
(* tool calls completes the run, whatever its text.                         *)
C5_AnyNoToolResponseCompletes ==
    (NoToolResponse /\ ~state.Options.RequireCompletionMarker) =>
        state.Status = StatusCompleted

(* C5, amended: without require_completion_marker a response without tool  *)
(* calls completes the run exactly when its trimmed text is not empty; an   *)
(* empty one counts as a no-tool turn.                                      *)
C5_NonEmptyNoToolResponseCompletes ==
    (NoToolResponse /\ ~state.Options.RequireCompletionMarker) =>
        /\ (state.Status = StatusCompleted) <=> (TrimSpace(result.Content) # <<>>)
        /\ state.Status = StatusCompleted => (pc = "returned" /\ ret.err = "")
        /\ state.Status # StatusCompleted => state.ConsecutiveNoToolTurns >= 1

C5_Witness ==
    /\ ~state.Options.RequireCompletionMarker
    /\ pc = "returned"
    /\ state.Status = StatusCompleted
    /\ result.Content = TextPlain
    /\ result.ToolCalls = <<>>

AssistantMessages(msgs) == SelectSeq(msgs, LAMBDA m : m.Role = "assistant")

(* An Assistant message without tool calls and without the marker. *)
IdleAnswer(m, opts) ==
    /\ m.ToolCalls = <<>>
    /\ ~ContainsFold(TrimSpace(m.Content.text), opts.CompletionMarker)

(* C6: with the marker required and N = max_consecutive_no_tool_turns <=   *)
(* max_turns, a fresh run whose first N responses are tool-less and         *)
(* marker-less has ended on the N-th: no_progress_stopped, turn = N,        *)
(* consecutive_no_tool_turns = N, and the messages are the goal, then the   *)
(* N Assistant messages with a "continue" User message after each but the   *)
(* last.                                                                    *)
C6_NoProgressStop ==
    LET N == state.Options.MaxConsecutiveNoToolTurns
        am == AssistantMessages(state.Messages)
    IN (/\ resumes = 0
        /\ state.Options.RequireCompletionMarker
        /\ N <= state.Options.MaxTurns
        /\ Len(am) >= N
        /\ \A i \in 1..N : IdleAnswer(am[i], state.Options)) =>
           /\ pc = "returned" /\ ret.hasState /\ ret.err = ""
           /\ state.Status = StatusNoProgressStopped
           /\ state.Turn = N
           /\ state.ConsecutiveNoToolTurns = N
           /\ Len(state.Messages) = 2 * N
           /\ \A i \in 1..N : state.Messages[2 * i].Role = "assistant"
           /\ \A i \in 1..(N - 1) :
                 /\ state.Messages[2 * i + 1].Role = "user"
                 /\ Contains(state.Messages[2 * i + 1].Content.text,
                             state.Options.CompletionMarker)

C6_Witness ==
    /\ resumes = 0
    /\ state.Options.RequireCompletionMarker
    /\ state.Options.MaxConsecutiveNoToolTurns = 2
    /\ state.Status = StatusNoProgressStopped
    /\ state.Turn = 2
    /\ Len(state.Messages) = 4

Count(seq, Test(_)) == Cardinality({i \in 1..Len(seq) : Test(seq[i])})

ChatBadCall(id) == id = "call_bad"

ChatIssuedBad ==
    LET am == AssistantMessages(chat.messages) IN
    Cardinality({p \in {q \in (1..Len(am)) \X (1..2) : q[2] <= Len(am[q[1]].ToolCalls)} :
                    ChatBadCall(am[p[1]].ToolCalls[p[2]].ID)})

(* C8: a tool call whose raw arguments are not valid JSON never reaches the *)
(* handler; exactly one Tool message with its tool_call_id is appended,     *)
(* whose content is the error object (error = true, the tool's name, in the *)
(* Runner the message "invalid tool arguments JSON"); the handler is only   *)
(* ever given the raw arguments of calls that parsed; and the turn goes on  *)
(* with the next call or the follow-up request.  Runner and chat surface.   *)
C8_InvalidArguments ==
    /\ InToolTurn =>
          LET tm == TurnToolMessages IN
          /\ Len(tm) = Handled
          /\ \A j \in 1..Handled :
                ~JsonValid(toolCalls[j].Arguments) =>
                    /\ tm[j] = ChatMessage("tool",
                                   ErrorPayload(toolCalls[j].Name, "invalid tool arguments JSON"),
                                   <<>>, toolCalls[j].ID, toolCalls[j].Name)
                    /\ \A k \in 1..Len(executed) : executed[k].at # j
          /\ ExecutedCalls = ValidCalls(SubSeq(toolCalls, 1, Handled))
          /\ pc = "tools" => state.Status = StatusRunning
          /\ pc = "head" => Handled = Len(toolCalls)
    /\ pc = "chat" =>
          /\ \A i \in 1..Len(chat.messages) :
                (chat.messages[i].Role = "tool" /\ ChatBadCall(chat.messages[i].ToolCallID)) =>
                    /\ chat.messages[i].Content.kind = "object"
                    /\ chat.messages[i].Content.error
                    /\ chat.messages[i].Content.tool = chat.messages[i].Name
          /\ \A k \in 1..Len(chat.executeCalls) : ~ChatBadCall(chat.executeCalls[k].toolCallID)
          /\ Count(chat.messages, LAMBDA m : m.Role = "tool" /\ ChatBadCall(m.ToolCallID))
                = ChatIssuedBad - Count(chat.pending, LAMBDA c : c.ParseError # "")
          /\ ~chat.inFlight => chat.sendCalls = chat.batches

C8_Witness ==
    /\ pc = "head"
    /\ toolCalls = <<CallBad3, CallNope2>>
    /\ Len(executed) = 1
    /\ executed[1].at = 2
    /\ state.ToolCallCount = 2
    /\ state.Status = StatusRunning

(* What ExecuteSkill handed back is a failure, and the message it carries. *)
FailedOutcome(o) ==
    \/ o.err # ""
    \/ o.execution.nil
    \/ ~o.execution.Success
    \/ o.execution.Result.type = "chan"

FailureMessage(o) ==
    IF o.err # "" THEN o.err
    ELSE IF o.execution.nil THEN "nil execution result"
    ELSE IF ~o.execution.Success THEN o.execution.Error
    ELSE "failed to marshal tool result: json: unsupported type: chan int"

(* C9: whatever a tool execution hands back - an error (unknown tool,       *)
(* timeout), no result, an unsuccessful result, a result that cannot be     *)
(* marshalled - the run is not failed or ended by it: the call gets exactly *)
(* one Tool message, an error object naming the tool and the failure, the   *)
(* remaining calls of the turn are handled, and only max_turns can end the  *)
(* run at the end of a tool turn.                                           *)
C9_ToolFailureContinues ==
    InToolTurn =>
        LET tm == TurnToolMessages IN
        /\ Len(tm) = Handled
        /\ \A k \in 1..Len(executed) :
              FailedOutcome(executed[k].outcome) =>
                  tm[executed[k].at] =
                      ChatMessage("tool",
                          ErrorPayload(executed[k].name, FailureMessage(executed[k].outcome)),
                          <<>>, toolCalls[executed[k].at].ID, executed[k].name)
        /\ state.Status # StatusFailed
        /\ pc \in {"tools", "head"} => state.Status = StatusRunning
        /\ pc = "head" => Handled = Len(toolCalls)
        /\ pc = "returned" =>
              (state.Status = StatusMaxTurnsReached /\ state.Turn = state.Options.MaxTurns)

C9_Witness ==
    /\ pc = "head"
    /\ toolCalls = <<CallRead1, CallBad1>>
    /\ Len(executed) = 1
    /\ executed[1].outcome.err = "context deadline exceeded"
    /\ Len(TurnToolMessages) = 2
    /\ state.Turn < state.Options.MaxTurns
    /\ state.Status = StatusRunning

(* C10: with disable_checkpoints the run never calls Save and the          *)
(* checkpoint file is never created or modified.                            *)
C10_NoWriteWhenDisabled ==
    options.DisableCheckpoints => (~lastSaved.called /\ disk = NoFile)

(* The request of turn k+1 is out, checkpoints are enabled and no Save has  *)
(* failed: the file holds the run as it was at the end of turn k.           *)
RequestInFlight ==
    pc = "request" /\ ~state.Options.DisableCheckpoints /\ saveFailed = 0

CheckpointAtEndOfTurn ==
    /\ disk.kind = "ok"
    /\ disk.data.RunID = state.RunID
    /\ disk.data.Turn = state.Turn - 1
    /\ disk.data.Messages = sent
    /\ disk.data.Messages = state.Messages
    /\ disk.data.Steps = state.Steps
    /\ disk.data.ToolCallCount = state.ToolCallCount
    /\ disk.data.ConsecutiveNoToolTurns = state.ConsecutiveNoToolTurns

FieldsEqual(a, b) ==
    /\ a.RunID = b.RunID
    /\ a.Goal = b.Goal
    /\ a.Status = b.Status
    /\ a.Completed = b.Completed
    /\ a.Turn = b.Turn
    /\ a.ToolCallCount = b.ToolCallCount
    /\ a.ConsecutiveNoToolTurns = b.ConsecutiveNoToolTurns
    /\ a.CreatedAt.wall = b.CreatedAt.wall
    /\ a.UpdatedAt.wall = b.UpdatedAt.wall
    /\ a.Messages = b.Messages
    /\ a.Steps = b.Steps
    /\ a.LastAssistantResponse = b.LastAssistantResponse
    /\ a.Error = b.Error
    /\ a.Options = b.Options

(* C12: a successful Save(s) followed by Load(s.run_id), with no Save of    *)
(* that run in between, returns a state equal to s field by field, s        *)
(* carrying the updated_at that Save stamped.                               *)
C12_SaveLoadRoundTrip ==
    (/\ store.op.name = "Load"
     /\ store.op.runID \in RunIDSet
     /\ store.saved[store.op.runID].outcome = "ok") =>
        /\ store.op.err = ""
        /\ FieldsEqual(store.op.loaded, store.saved[store.op.runID].st)

(* The summaries List has to choose from. *)
Listable == {RunSummary(store.dir[id].data) : id \in {r \in RunIDSet : store.dir[r].kind = "ok"}}

Min(a, b) == IF a < b THEN a ELSE b

(* C13: List(limit) returns no error and one summary per decodable file,    *)
(* most recently saved first, unreadable and corrupt files left out; only   *)
(* the first `limit` of them when limit > 0, all of them when limit <= 0.   *)
C13_List ==
    store.op.name = "List" =>
        LET l == store.op.listed
            n == Cardinality(Listable)
        IN /\ store.op.err = ""
           /\ \A i \in 1..Len(l) : l[i] \in Listable
           /\ \A i, j \in 1..Len(l) : i < j => l[i].UpdatedAt.wall > l[j].UpdatedAt.wall
           /\ Len(l) = IF store.op.limit > 0 THEN Min(store.op.limit, n) ELSE n
           /\ \A x \in Listable :
                 (\A i \in 1..Len(l) : l[i] # x) =>
                     \A i \in 1..Len(l) : l[i].UpdatedAt.wall > x.UpdatedAt.wall

C13_Witness ==
    /\ store.op.name = "List"
    /\ store.op.limit = 2
    /\ Len(store.op.listed) = 2
    /\ Cardinality(Listable) = 2
    /\ \E id \in RunIDSet : store.dir[id].kind = "corrupt"
    /\ store.op.listed[1].RunID = "c"
    /\ store.op.listed[2].RunID = "a"

(* C14: after a successful Save(s), and before any other Save, List(limit)  *)
(* contains a summary with s.run_id for every limit >= 1, whatever other    *)
(* checkpoints there are and whatever updated_at s carried before.          *)
C14_SavedRunIsListed ==
    (/\ store.op.name = "List"
     /\ store.op.limit >= 1
     /\ store.lastSave # ""
     /\ store.saved[store.lastSave].outcome = "ok") =>
        \E i \in 1..Len(store.op.listed) : store.op.listed[i].RunID = store.lastSave

C14_Witness ==
    /\ store.op.name = "List"
    /\ store.op.limit = 1
    /\ store.lastSave = "a"
    /\ store.saved["a"].outcome = "ok"
    /\ store.dir["b"].kind = "ok"
    /\ store.dir["c"].kind = "ok"
    /\ store.op.listed[1].RunID = "a"

(* C15: Load fails with one error when the run has no checkpoint file and   *)
(* with another when the file does not decode; on either, Resume returns    *)
(* that error and no state, and has issued no request, executed no tool     *)
(* and left the checkpoint file as it was.                                  *)
C15_ResumeLoadFailure ==
    [][(resumes' = resumes + 1 /\ disk.kind # "ok") =>
          /\ pc' = "returned"
          /\ ret' = [op |-> "Resume", hasState |-> FALSE,
                     err |-> IF disk.kind = "none" THEN "read checkpoint"
                             ELSE "parse checkpoint"]
          /\ state' = NilState
          /\ requests' = requests
          /\ callRequests' = 0
          /\ executed' = <<>>
          /\ disk' = disk
          /\ lastSaved' = lastSaved]_vars

C15_Witness ==
    /\ pc = "returned"
    /\ ret = [op |-> "Resume", hasState |-> FALSE, err |-> "parse checkpoint"]
    /\ disk.kind = "corrupt"
    /\ requests > 0
    /\ resumes = 1

(* C16: RunGoal with a goal that is empty once trimmed returns the error    *)
(* "goal is required" and no state, with no request issued, no tool         *)
(* executed and no checkpoint written; a run only ever exists for a goal    *)
(* that is not blank, and holds it trimmed.                                 *)
C16_EmptyGoalRejected ==
    /\ (ret.op = "RunGoal" /\ ~ret.hasState) =>
          /\ pc = "returned"
          /\ ret.err = "goal is required"
          /\ state = NilState
          /\ requests = 0
          /\ executed = <<>>
          /\ ~lastSaved.called
          /\ disk = NoFile
    /\ state.RunID # "" =>
          /\ state.Goal # <<>>
          /\ ~IsSpace(state.Goal[1])
          /\ ~IsSpace(state.Goal[Len(state.Goal)])
          /\ state.Messages[1].Content.text = state.Goal

C16_Witness ==
    /\ pc = "returned"
    /\ ret = [op |-> "RunGoal", hasState |-> FALSE, err |-> "goal is required"]
    /\ state = NilState
    /\ disk = NoFile

IsPrefix(p, q) == Len(p) <= Len(q) /\ SubSeq(q, 1, Len(p)) = p

(* The invocation under way, or the one that returned last, is a Resume    *)
(* that loaded a checkpoint.                                                *)
Resumed == resumes > 0 /\ resumed.RunID # "" /\ pc \in {"head", "request", "tools", "returned"}

(* C17: Resume continues the run of the checkpoint it loaded, saved at turn *)
(* t: it is the same run; its first request belongs to turn t+1 and is sent *)
(* the checkpointed messages, with tool_call_count and                      *)
(* consecutive_no_tool_turns at their checkpointed values; from then on the *)
(* checkpointed messages and steps stay an unchanged prefix and the counter *)
(* of tool calls only grows from its checkpointed value.                    *)
C17_ResumeContinues ==
    Resumed =>
        /\ state.RunID = resumed.RunID
        /\ state.Goal = resumed.Goal
        /\ entryTurn = resumed.Turn
        /\ state.Turn = resumed.Turn + callRequests
        /\ IsPrefix(resumed.Messages, state.Messages)
        /\ IsPrefix(resumed.Steps, state.Steps)
        /\ state.ToolCallCount >= resumed.ToolCallCount
        /\ callRequests = 0 =>
              /\ state.Messages = resumed.Messages
              /\ state.ToolCallCount = resumed.ToolCallCount
              /\ state.ConsecutiveNoToolTurns = resumed.ConsecutiveNoToolTurns
        /\ (callRequests = 1 /\ pc = "request") =>
              /\ sent = resumed.Messages
              /\ state.Messages = resumed.Messages
              /\ state.ToolCallCount = resumed.ToolCallCount
              /\ state.ConsecutiveNoToolTurns = resumed.ConsecutiveNoToolTurns

C17_Witness ==
    /\ Resumed
    /\ resumed.Status = StatusRunning
    /\ resumed.Turn = 1
    /\ resumed.ToolCallCount = 1
    /\ pc = "returned"
    /\ state.Status = StatusCompleted
    /\ state.Turn = 2
    /\ Len(state.Messages) = Len(resumed.Messages) + 1

(* C18: in every state of a run messages are in causal order: the first is  *)
(* the User goal; an Assistant message follows a User or a Tool message;    *)
(* a Tool message follows an Assistant message with tool_calls or another   *)
(* Tool message.                                                            *)
C18_CausalOrder ==
    state.RunID # "" =>
        LET m == state.Messages IN
        /\ m # <<>>
        /\ m[1].Role = "user"
        /\ m[1].Content.text = state.Goal
        /\ \A i \in 2..Len(m) :
              /\ m[i].Role = "assistant" => m[i - 1].Role \in {"user", "tool"}
              /\ m[i].Role = "tool" =>
                    \/ m[i - 1].Role = "assistant" /\ m[i - 1].ToolCalls # <<>>
                    \/ m[i - 1].Role = "tool"

(* C19: in every state of a run tool_call_count is the number of Tool       *)
(* messages - one per dispatched call, whether it succeeded, failed or had  *)
(* invalid arguments - and the number of steps of type tool; so it is in    *)
(* every checkpoint.                                                        *)
C19_ToolCallCount ==
    /\ state.RunID # "" =>
          /\ state.ToolCallCount = Count(state.Messages, LAMBDA m : m.Role = "tool")
          /\ state.ToolCallCount = Count(state.Steps, LAMBDA st : st.Type = "tool")
    /\ disk.kind = "ok" =>
          /\ disk.data.ToolCallCount = Count(disk.data.Messages, LAMBDA m : m.Role = "tool")
          /\ disk.data.ToolCallCount = Count(disk.data.Steps, LAMBDA st : st.Type = "tool")

C19_Witness ==
    /\ pc = "head"
    /\ state.ToolCallCount = 2
    /\ toolCalls = <<CallRead1, CallBad1>>
    /\ Len(executed) = 1
    /\ executed[1].outcome.err = "context deadline exceeded"
    /\ state.Messages[Len(state.Messages)].Content =
          ErrorPayload("dev_write_file", "invalid tool arguments JSON")

(* C20: when a response carries two tool calls with the same tool_call_id,  *)
(* the later one replaces the earlier before dispatch: a call is executed   *)
(* only if no later call of the response has its id, and the turn appends   *)
(* one Tool message per distinct id (of those within the per-turn cap).     *)
C20_DuplicateIdReplaced ==
    (InToolTurn /\ pc = "head") =>
        LET calls == result.ToolCalls
            ids == {calls[i].ID : i \in 1..Len(calls)}
        IN /\ \A k \in 1..Len(executed) :
                 \A j \in (executed[k].at + 1)..Len(calls) :
                    calls[j].ID # calls[executed[k].at].ID
           /\ Len(TurnToolMessages) = Min(Cardinality(ids), state.Options.MaxToolCallsPerTurn)

(* C21: once the caller's context was cancelled during a provider request   *)
(* or a tool execution, on whatever turn, the run returns with status       *)
(* failed, the cancellation error in error, and that state handed to Save.  *)
C21_CancelFailsRun ==
    (ctx = "cancelled" /\ pc = "returned") =>
        /\ state.Status = StatusFailed
        /\ state.Error = Canceled
        /\ ret.err = Canceled
        /\ lastSaved.called
        /\ lastSaved.st = state

(* What a run shows of itself: its state (status, turn, counters, messages, *)
(* steps), the requests it sent, the tools it dispatched, what it returned. *)
RunView ==
    <<options, state, pc, result, toolCalls, idx, ret, sent, countAtSend,
      executed, requests, callRequests, entryTurn, resumes, resumed>>

(* The same step of the run with a Save that succeeds ends in view v. *)
SameStepSaved(v) == ENABLED (SaveNext /\ saveFailed' = saveFailed /\ RunView' = v)

(* C22: a Save that fails changes nothing of the run: every step of a run   *)
(* in which a checkpoint write fails leaves the run - requests sent, tools  *)
(* dispatched, status, turn, counters, messages, return value - exactly     *)
(* where the same step leaves it when the write succeeds.                   *)
C22_SaveFailureIgnored ==
    [][saveFailed' # saveFailed => \E v \in {RunView'} : SameStepSaved(v)]_vars

(* A run that ended completed although a checkpoint write of it failed. *)
C22_Witness ==
    /\ pc = "returned"
    /\ saveFailed > 0
    /\ lastSaved.outcome # "ok"
    /\ state.Status = StatusCompleted
    /\ ret.err = ""

----------------------------------------------------------------------------
(* The workspace skills dev_list_files, dev_read_file, dev_write_file and   *)
(* dev_search_files (dev_skills.go).                                        *)
(*                                                                          *)
(* A path is [abs, segs]: whether it starts at the root, and its elements.  *)
(* The file system holds regular files, directories and, in the workspace,  *)
(* possibly a symbolic link l to the directory /o outside of it; os.*       *)
(* calls follow the link as the kernel does.                                *)

PathOf(abs, segs) == [abs |-> abs, segs |-> segs]

(* filepath.Clean *)
Clean(path) ==
    LET RECURSIVE CleanSegs(_, _)
        CleanSegs(segs, out) ==
            IF segs = <<>> THEN out
            ELSE LET h == Head(segs)
                     t == Tail(segs)
                 IN IF h = "." THEN CleanSegs(t, out)
                    ELSE IF h # ".." THEN CleanSegs(t, Append(out, h))
                    ELSE IF out # <<>> /\ out[Len(out)] # ".."
                         THEN CleanSegs(t, SubSeq(out, 1, Len(out) - 1))
                    ELSE IF path.abs THEN CleanSegs(t, out)
                    ELSE CleanSegs(t, Append(out, ".."))
    IN PathOf(path.abs, CleanSegs(path.segs, <<>>))

(* filepath.Join(a, b) *)
Join(a, b) == Clean(PathOf(a.abs, a.segs \o b.segs))

(* filepath.Rel(base, targ) on clean paths: (rel, err) *)
Rel(base, targ) ==
    LET RECURSIVE CommonLen(_, _)
        CommonLen(x, y) ==
            IF x = <<>> \/ y = <<>> \/ Head(x) # Head(y) THEN 0
            ELSE 1 + CommonLen(Tail(x), Tail(y))
        k == CommonLen(base.segs, targ.segs)
        up == [i \in 1..(Len(base.segs) - k) |-> ".."]
        bad == \/ base.abs # targ.abs
               \/ \E i \in (k + 1)..Len(base.segs) : base.segs[i] = ".."
    IN [err |-> IF bad THEN "Rel: can't make relative" ELSE "",
        segs |-> IF bad THEN <<>>
                 ELSE up \o SubSeq(targ.segs, k + 1, Len(targ.segs))]

resolveWorkspacePath(workspace, input) ==
    LET ws == Clean(workspace)
        in == IF input.segs = <<>> /\ ~input.abs THEN PathOf(FALSE, <<".">>) ELSE input
        candidate == IF in.abs THEN Clean(in) ELSE Clean(Join(ws, in))
        rel == Rel(ws, candidate)
    IN IF rel.err # "" THEN [err |-> rel.err, path |-> PathOf(FALSE, <<>>)]
       ELSE IF rel.segs # <<>> /\ rel.segs[1] = ".."
            THEN [err |-> "path escapes workspace", path |-> PathOf(FALSE, <<>>)]
       ELSE [err |-> "", path |-> candidate]

(* The workspace RegisterDevSkills normalised. *)
Workspace == PathOf(TRUE, <<"w">>)

(* Where the kernel finds the path once it has followed the link /w/l,     *)
(* which points to /o.                                                      *)
Real(fsys, segs) ==
    IF fsys.link /\ IsPrefix(<<"w", "l">>, segs)
    THEN <<"o">> \o SubSeq(segs, 3, Len(segs))
    ELSE segs

(* "", ".", "a", "d/a", "../o/s", "../w/a", "l/s", "/w/a", "/o/s" *)
PathInputs ==
    { PathOf(FALSE, <<>>), PathOf(FALSE, <<".">>), PathOf(FALSE, <<"a">>),
      PathOf(FALSE, <<"d", "a">>), PathOf(FALSE, <<"..", "o", "s">>),
      PathOf(FALSE, <<"..", "w", "a">>), PathOf(FALSE, <<"l", "s">>),
      PathOf(TRUE, <<"w", "a">>), PathOf(TRUE, <<"o", "s">>) }

(* A call of a handler and what it returned; touched: the files and         *)
(* directories it read, listed, made or wrote; changed: whether it altered  *)
(* the file system.                                                         *)
FsOp(name, input, err) ==
    [name |-> name, input |-> input, err |-> err, content |-> <<>>, entries |-> {},
     touched |-> {}, changed |-> FALSE, args |-> <<>>, matches |-> <<>>,
     truncated |-> FALSE]

(* No Runner runs and no chat is open: what is used on its own starts at    *)
(* position `where`.                                                        *)
OnItsOwn(where) ==
    /\ pc = where
    /\ options = DefaultOptions
    /\ state = NilState
    /\ result = NoResult
    /\ toolCalls = <<>>
    /\ idx = 0
    /\ disk = NoFile
    /\ ret = NoReturn
    /\ sent = <<>>
    /\ countAtSend = 0
    /\ executed = <<>>
    /\ requests = 0
    /\ callRequests = 0
    /\ entryTurn = 0
    /\ lastSaved = NoSaveYet
    /\ saveFailed = 0
    /\ resumes = 0
    /\ resumed = NilState
    /\ chat = NoChat
    /\ ctx = "live"

FsInit ==
    /\ OnItsOwn("fs")
    /\ store = <<>>
    /\ cmd = <<>>
    /\ skill = <<>>
    /\ \E link \in BOOLEAN :
          fs = [files |-> [f \in {<<"w", "a">>, <<"w", ".git", "c">>, <<"o", "s">>} |->
                              IF f = <<"w", "a">> THEN <<"h", "i">> ELSE <<"k">>],
                dirs |-> {<<>>, <<"w">>, <<"w", ".git">>, <<"o">>},
                link |-> link,
                op |-> FsOp("", PathOf(FALSE, <<>>), "")]

(* os.MkdirAll(dir): the directories it makes, or its error. *)
MkdirAll(fsys, dir) ==
    LET real == Real(fsys, dir)
        prefixes == {SubSeq(real, 1, n) : n \in 0..Len(real)}
    IN IF prefixes \cap DOMAIN fsys.files # {}
       THEN [err |-> "mkdir: not a directory", dirs |-> fsys.dirs]
       ELSE [err |-> "", dirs |-> fsys.dirs \cup prefixes]

devWriteFileHandler(input, content, appendMode) ==
    /\ pc = "fs"
    /\ LET r == resolveWorkspacePath(Workspace, input)
           made == MkdirAll(fs, SubSeq(r.path.segs, 1, Len(r.path.segs) - 1))
           target == Real(fs, r.path.segs)
           old == IF appendMode /\ target \in DOMAIN fs.files
                  THEN fs.files[target] ELSE <<>>
           done == [FsOp("dev_write_file", input, "")
                      EXCEPT !.content = old \o content,
                             !.touched = (made.dirs \ fs.dirs) \cup {target},
                             !.changed = TRUE]
       IN /\ Len(old \o content) <= MaxFileLen
          /\ fs' =
               IF input.segs = <<>> /\ ~input.abs
               THEN [fs EXCEPT !.op = FsOp("dev_write_file", input, "path is required")]
               ELSE IF r.err # ""
               THEN [fs EXCEPT !.op = FsOp("dev_write_file", input, r.err)]
               ELSE IF made.err # ""
               THEN [fs EXCEPT !.op = FsOp("dev_write_file", input, made.err)]
               ELSE IF target \in made.dirs
               THEN [fs EXCEPT !.dirs = made.dirs,
                        !.op = [FsOp("dev_write_file", input, "write: is a directory")
                                  EXCEPT !.touched = made.dirs \ fs.dirs,
                                         !.changed = made.dirs # fs.dirs]]
               ELSE [fs EXCEPT
                        !.dirs = made.dirs,
                        !.files = [f \in DOMAIN fs.files \cup {target} |->
                                      IF f = target THEN old \o content ELSE fs.files[f]],
                        !.op = done]
    /\ UNCHANGED <<RunnerVars, ctx, store, cmd, skill>>

devReadFileHandler(input) ==
    /\ pc = "fs"
    /\ LET r == resolveWorkspacePath(Workspace, input)
           target == Real(fs, r.path.segs)
       IN fs' =
            IF input.segs = <<>> /\ ~input.abs
            THEN [fs EXCEPT !.op = FsOp("dev_read_file", input, "path is required")]
            ELSE IF r.err # ""
            THEN [fs EXCEPT !.op = FsOp("dev_read_file", input, r.err)]
            ELSE IF target \notin DOMAIN fs.files
            THEN [fs EXCEPT !.op = [FsOp("dev_read_file", input, "read: no such file")
                                      EXCEPT !.touched = {target}]]
            ELSE [fs EXCEPT !.op = [FsOp("dev_read_file", input, "")
                                      EXCEPT !.content = fs.files[target],
                                             !.touched = {target}]]
    /\ UNCHANGED <<RunnerVars, ctx, store, cmd, skill>>

(* Without recursive: the names os.ReadDir finds in the directory. *)
devListFilesHandler(input) ==
    /\ pc = "fs"
    /\ LET r == resolveWorkspacePath(Workspace, input)
           target == Real(fs, r.path.segs)
           children == {g \in DOMAIN fs.files \cup fs.dirs :
                           Len(g) = Len(target) + 1 /\ IsPrefix(target, g)}
           names == {g[Len(g)] : g \in children}
                       \cup (IF fs.link /\ target = <<"w">> THEN {"l"} ELSE {})
       IN fs' =
            IF r.err # ""
            THEN [fs EXCEPT !.op = FsOp("dev_list_files", input, r.err)]
            ELSE IF target \notin fs.dirs
            THEN [fs EXCEPT !.op = [FsOp("dev_list_files", input, "readdir: not a directory")
                                      EXCEPT !.touched = {target}]]
            ELSE [fs EXCEPT !.op = [FsOp("dev_list_files", input, "")
                                      EXCEPT !.entries = names, !.touched = {target}]]
    /\ UNCHANGED <<RunnerVars, ctx, store, cmd, skill>>

(* strings.ToLower *)
ToLower(s) == [i \in 1..Len(s) |-> LowerOf(s[i])]

(* filepath.WalkDir(root, fn) with the callback of dev_search_files: the    *)
(* files fn opens, in the order it is handed them - the files beneath the   *)
(* root, or the root when it is a file, in lexical order of the names,      *)
(* directory by directory, without what lies in a directory named .git.     *)
(* WalkDir follows no link it meets in a directory; the kernel follows the *)
(* links in the elements of the root before its last.                      *)
WalkDir(fsys, root) ==
    LET Names == <<".git", "a", "c", "d", "l", "o", "s", "w">>
        Rank(n) == CHOOSE i \in 1..Len(Names) : Names[i] = n
        Before(p, q) ==
            LET k == CHOOSE i \in 1..Len(p) : p[i] # q[i] /\ \A j \in 1..(i - 1) : p[j] = q[j]
            IN Rank(p[k]) < Rank(q[k])
        beneath == {f \in DOMAIN fsys.files :
                       /\ IsPrefix(root, f)
                       /\ \A i \in 1..(Len(f) - 1) : f[i] # ".git"}
        RECURSIVE InOrder(_)
        InOrder(S) ==
            IF S = {} THEN <<>>
            ELSE LET first == CHOOSE f \in S : \A g \in S \ {f} : Before(f, g)
                 IN <<first>> \o InOrder(S \ {first})
    IN InOrder(beneath)

(* A file's content is one line. maxResults: the argument max_results as    *)
(* getIntArg reads it, <<>> when it is not given.                           *)
devSearchFilesHandler(pattern, input, maxResults, caseSensitive) ==
    /\ pc = "fs"
    /\ LET r == resolveWorkspacePath(Workspace, input)
           given == IF maxResults = <<>> THEN 100 ELSE maxResults[1]
           limit == IF given <= 0 THEN 100 ELSE IF given > 1000 THEN 1000 ELSE given
           needle == IF caseSensitive THEN pattern ELSE ToLower(pattern)
           walk == WalkDir(fs, Real(fs, r.path.segs))
           hit(f) == Contains(IF caseSensitive THEN fs.files[f] ELSE ToLower(fs.files[f]),
                              needle)
           hits == SelectSeq(walk, hit)
           full == Len(hits) >= limit
           matches == IF full THEN SubSeq(hits, 1, limit) ELSE hits
           opened == IF full
                     THEN {walk[i] : i \in 1..(CHOOSE n \in 1..Len(walk) :
                                                  walk[n] = matches[limit])}
                     ELSE {walk[i] : i \in 1..Len(walk)}
           args == [pattern |-> pattern, max_results |-> maxResults,
                    case_sensitive |-> caseSensitive]
       IN fs' =
            IF pattern = <<>>
            THEN [fs EXCEPT !.op = FsOp("dev_search_files", input, "pattern is required")]
            ELSE IF r.err # ""
            THEN [fs EXCEPT !.op = [FsOp("dev_search_files", input, r.err)
                                      EXCEPT !.args = args]]
            ELSE [fs EXCEPT !.op = [FsOp("dev_search_files", input, "")
                                      EXCEPT !.args = args,
                                             !.matches = matches,
                                             !.truncated = full,
                                             !.entries = {matches[i] : i \in 1..Len(matches)},
                                             !.touched = opened]]
    /\ UNCHANGED <<RunnerVars, ctx, store, cmd, skill>>

FsNext ==
    \/ \E input \in PathInputs, appendMode \in BOOLEAN :
          devWriteFileHandler(input, <<"K">>, appendMode)
    \/ \E input \in PathInputs : devReadFileHandler(input)
    \/ \E input \in PathInputs : devListFilesHandler(input)
    \/ \E pattern \in {<<>>, <<"k">>}, input \in PathInputs,
          maxResults \in {<<>>, <<0>>, <<1>>, <<1001>>}, caseSensitive \in BOOLEAN :
          devSearchFilesHandler(pattern, input, maxResults, caseSensitive)

FsSpec == FsInit /\ [][FsNext]_vars

(* The workspace itself or beneath it. *)
Inside(segs) == IsPrefix(Workspace.segs, segs)

(* clean(join(workspace, P)), or clean(P) for an absolute P *)
Resolved(input) ==
    IF input.abs THEN Clean(input).segs
    ELSE Clean(PathOf(TRUE, Workspace.segs \o input.segs)).segs

RequiredArgMissing == fs.op.err \in {"path is required", "pattern is required"}

(* C23: the dev_* file skills accept a path exactly when its clean form is  *)
(* the workspace or beneath it; a call with an escaping path fails with the *)
(* path-escape error and changes nothing; and every file or directory a     *)
(* call reads, lists, creates or writes lies in the workspace.              *)
C23_WorkspaceConfined ==
    (fs.op.name # "" /\ ~RequiredArgMissing) =>
        /\ fs.op.err # "path escapes workspace" <=> Inside(Resolved(fs.op.input))
        /\ fs.op.err = "path escapes workspace" => ~fs.op.changed /\ fs.op.touched = {}
        /\ \A f \in fs.op.touched : Inside(f)

(* The Tool messages at the end of msgs, and the Assistant message they     *)
(* answer: the last tool turn of a history that ends with one.              *)
TrailingTools(msgs) ==
    LET start == CHOOSE i \in 0..Len(msgs) :
                    /\ \A j \in (i + 1)..Len(msgs) : msgs[j].Role = "tool"
                    /\ i > 0 => msgs[i].Role # "tool"
    IN [calls |-> IF start > 0 THEN msgs[start].ToolCalls ELSE <<>>,
        tools |-> SubSeq(msgs, start + 1, Len(msgs))]

(* C24: in a turn with tool calls the Runner dispatches the calls one at a  *)
(* time in the order the provider returned them: the Tool messages of the   *)
(* turn are those of the calls handled so far, in that order, every         *)
(* ExecuteSkill call made is one of them, made in that order, and no        *)
(* provider request is issued before the last call of the turn has its      *)
(* Tool message - the next request carries them all.                        *)
C24_SequentialDispatch ==
    /\ InToolTurn =>
          LET tm == TurnToolMessages
              done == Handled
          IN /\ Len(tm) = done
             /\ Len(state.Messages) = Len(sent) + 1 + done
             /\ \A j \in 1..done :
                   /\ tm[j].Role = "tool"
                   /\ tm[j].ToolCallID = result.ToolCalls[j].ID
             /\ \A k \in 1..Len(executed) :
                   /\ executed[k].at <= done
                   /\ executed[k].name = result.ToolCalls[executed[k].at].Name
                   /\ k > 1 => executed[k - 1].at < executed[k].at
             /\ pc = "tools" => callRequests >= 1 /\ SubSeq(state.Messages, 1, Len(sent)) = sent
    /\ (pc = "request" /\ sent # <<>> /\ sent[Len(sent)].Role = "tool") =>
          LET last == TrailingTools(sent)
              n == Min(Len(last.calls), state.Options.MaxToolCallsPerTurn)
          IN /\ Len(last.tools) = n
             /\ \A j \in 1..n : last.tools[j].ToolCallID = last.calls[j].ID

(* The request that follows a turn of three calls capped to two: sent after *)
(* the second Tool message, with both in the order of the calls.            *)
C24_Witness ==
    /\ pc = "request"
    /\ callRequests = 2
    /\ Len(sent) = 4
    /\ sent[2].ToolCalls = <<CallBad3, CallNope2, CallRead1>>
    /\ sent[3].Role = "tool" /\ sent[3].ToolCallID = "c3"
    /\ sent[4].Role = "tool" /\ sent[4].ToolCallID = "c2"

(* The same on the file system of the dev_* skills, where calls run one     *)
(* after the other: a dev_read_file that directly follows a successful      *)
(* dev_write_file of the same path returns what the write left in the file. *)
ReadAfterWrite ==
    [][(/\ fs.op.name = "dev_write_file" /\ fs.op.err = ""
        /\ fs'.op.name = "dev_read_file" /\ fs'.op.input = fs.op.input) =>
            (fs'.op.err = "" /\ fs'.op.content = fs.op.content)]_vars

----------------------------------------------------------------------------
(* `celeste agent` (agent_run.go) and the eval harness (eval.go)            *)

(* EvalCase; its name is carried along like its goal and bears on nothing. *)
EvalCase(goal, maxTurns, mustContain, mustNotContain) ==
    [Goal |-> goal, MaxTurns |-> maxTurns, MustContain |-> mustContain,
     MustNotContain |-> mustNotContain]

EvalCases ==
    { EvalCase(<<"g">>, 0, <<>>, <<>>),
      EvalCase(<<"g">>, 1, <<<<>>, <<"h", "i">>>>, <<<<"d", "o", "h">>>>),
      EvalCase(<<"g">>, 0, <<<<" ", "h", "i">>, <<"o", "k">>>>, <<<<>>>>),
      EvalCase(<<"g">>, 0, <<<<"O", "K">>>>, <<<<"m">>, <<"H", "I">>>>),
      EvalCase(<<" ">>, 0, <<>>, <<>>) }

(* What RunGoal or Resume hands back: (state, err). *)
RunOutcomes ==
    { [hasState |-> TRUE, Status |-> StatusCompleted, err |-> "", text |-> txt] :
         txt \in { <<"O", "k", " ", "H", "i">>, <<" ", "h", "i", " ">>, <<"D", "o", "h">>, <<>> } }
    \cup { [hasState |-> TRUE, Status |-> s, err |-> "", text |-> <<"h", "i">>] :
              s \in {StatusMaxTurnsReached, StatusNoProgressStopped} }
    \cup { [hasState |-> TRUE, Status |-> StatusFailed, err |-> "API error: status 500",
            text |-> <<"h", "i">>] }

LoadFailure ==
    [hasState |-> FALSE, Status |-> "", err |-> "read checkpoint", text |-> <<>>]

(* fmt.Sprintf(format, arg), kept as its two parts *)
Sprintf(format, arg) == [format |-> format, arg |-> arg]

evaluateCase_CaseSensitive(c, status, finalText) ==
    LET missing == {i \in 1..Len(c.MustContain) :
                       c.MustContain[i] # <<>> /\ ~Contains(finalText, c.MustContain[i])}
        present == {i \in 1..Len(c.MustNotContain) :
                       c.MustNotContain[i] # <<>> /\ Contains(finalText, c.MustNotContain[i])}
    IN [passed |-> status = StatusCompleted /\ missing = {} /\ present = {},
        reason |-> Sprintf("ok", "")]

evaluateCase(c, status, finalText) ==
    LET missing == {i \in 1..Len(c.MustContain) :
                       /\ c.MustContain[i] # <<>>
                       /\ ~Contains(ToLower(finalText), ToLower(c.MustContain[i]))}
        present == {i \in 1..Len(c.MustNotContain) :
                       /\ c.MustNotContain[i] # <<>>
                       /\ Contains(ToLower(finalText), ToLower(c.MustNotContain[i]))}
        first(S) == CHOOSE i \in S : \A j \in S : i <= j
    IN IF status # StatusCompleted
       THEN [passed |-> FALSE, reason |-> Sprintf("status=%s", status)]
       ELSE IF missing # {}
       THEN [passed |-> FALSE,
             reason |-> Sprintf("missing required text: %q", c.MustContain[first(missing)])]
       ELSE IF present # {}
       THEN [passed |-> FALSE,
             reason |-> Sprintf("contains forbidden text: %q",
                                c.MustNotContain[first(present)])]
       ELSE [passed |-> TRUE, reason |-> Sprintf("ok", "")]

(* The EvalResult of one case of Runner.RunEval, given what its RunGoal     *)
(* handed back; ran: whether RunGoal was called.                             *)
EvalResult(c, out) ==
    IF TrimSpace(c.Goal) = <<>>
    THEN [case |-> c, ran |-> FALSE, out |-> LoadFailure, Status |-> StatusFailed,
          Passed |-> FALSE, Reason |-> Sprintf("empty goal", ""), start |-> NilState]
    ELSE IF out.err # ""
    THEN [case |-> c, ran |-> TRUE, out |-> out, Status |-> StatusFailed,
          Passed |-> FALSE, Reason |-> Sprintf("%s", out.err), start |-> NilState]
    ELSE LET e == evaluateCase(c, out.Status, TrimSpace(out.text))
         IN [case |-> c, ran |-> TRUE, out |-> out, Status |-> out.Status,
             Passed |-> e.passed, Reason |-> e.reason, start |-> NilState]

(* cmd.exit: the status os.Exit was called with, empty while running *)
AgentInit ==
    /\ OnItsOwn("cmd")
    /\ store = <<>>
    /\ fs = <<>>
    /\ skill = <<>>
    /\ \E mode \in {"goal", "resume", "eval"}, goal \in {<<"g">>, <<" ">>},
          n \in 0..MaxCases :
          \E cases \in [1..n -> EvalCases] :
             /\ mode # "eval" => n = 0
             /\ mode # "goal" => goal = <<"g">>
             /\ cmd = [mode |-> mode, goal |-> goal, cases |-> cases, results |-> <<>>,
                       out |-> LoadFailure, ran |-> FALSE, exit |-> <<>>,
                       options |-> DefaultOptions]

(* RunEval with caseRunner := r in place of caseRunner := *r: the case's    *)
(* options are written to the Runner itself.                                *)
RunEval_SharedRunner(out) ==
    /\ pc = "cmd"
    /\ cmd.mode = "eval"
    /\ cmd.exit = <<>>
    /\ Len(cmd.results) < Len(cmd.cases)
    /\ LET c == cmd.cases[Len(cmd.results) + 1]
           caseOptions == [cmd.options EXCEPT
                             !.DisableCheckpoints = TRUE,
                             !.MaxTurns = IF c.MaxTurns > 0 THEN c.MaxTurns ELSE @]
           goal == TrimSpace(c.Goal)
           st == [NewRunState(goal, caseOptions) EXCEPT
                    !.Messages = Append(@, ChatMessage("user", TextContent(goal), <<>>, "", "")),
                    !.Steps = Append(@, Step(0, "goal", "", TextContent(goal), ""))]
       IN cmd' = IF goal = <<>>
                 THEN [cmd EXCEPT !.results = Append(@, EvalResult(c, out))]
                 ELSE [cmd EXCEPT !.results = Append(@, [EvalResult(c, out)
                                                           EXCEPT !.start = st]),
                                  !.options = caseOptions]
    /\ UNCHANGED <<RunnerVars, ctx, store, fs, skill>>

(* Runner.RunEval: the next case of the list. cmd.options are the Runner's  *)
(* options; caseRunner is a copy of the Runner with the case's options, and *)
(* start is the RunState its RunGoal hands to runState, whose end is `out`. *)
RunEval(out) ==
    /\ pc = "cmd"
    /\ cmd.mode = "eval"
    /\ cmd.exit = <<>>
    /\ Len(cmd.results) < Len(cmd.cases)
    /\ LET c == cmd.cases[Len(cmd.results) + 1]
           caseOptions == [cmd.options EXCEPT
                             !.DisableCheckpoints = TRUE,
                             !.MaxTurns = IF c.MaxTurns > 0 THEN c.MaxTurns ELSE @]
           goal == TrimSpace(c.Goal)
           st == [NewRunState(goal, caseOptions) EXCEPT
                    !.Messages = Append(@, ChatMessage("user", TextContent(goal), <<>>, "", "")),
                    !.Steps = Append(@, Step(0, "goal", "", TextContent(goal), ""))]
       IN cmd' = [cmd EXCEPT !.results =
                     Append(@, IF goal = <<>> THEN EvalResult(c, out)
                               ELSE [EvalResult(c, out) EXCEPT !.start = st])]
    /\ UNCHANGED <<RunnerVars, ctx, store, fs, skill>>

runAgentCommand_ZeroWithoutError(c, out) ==
    IF c.mode = "eval"
    THEN [c EXCEPT !.exit = <<IF \E i \in 1..Len(c.results) :
                                      c.results[i].Status = StatusFailed
                              THEN 1 ELSE 0>>]
    ELSE [c EXCEPT !.out = out, !.ran = TRUE, !.exit = <<IF out.err # "" THEN 1 ELSE 0>>]

(* runAgentCommand from the mode switch on, given the results of RunEval or *)
(* what Resume / RunGoal handed back: the process's exit status.            *)
runAgentCommand(c, out) ==
    IF c.mode = "eval"
    THEN LET passed == Cardinality({i \in 1..Len(c.results) : c.results[i].Passed})
         IN [c EXCEPT !.exit = <<IF passed # Len(c.results) THEN 1 ELSE 0>>]
    ELSE IF c.mode = "resume"
    THEN [c EXCEPT !.out = out, !.ran = TRUE,
                   !.exit = <<IF out.err # "" THEN 1
                              ELSE IF out.Status # StatusCompleted THEN 1 ELSE 0>>]
    ELSE IF TrimSpace(c.goal) = <<>>
    THEN [c EXCEPT !.exit = <<1>>]
    ELSE [c EXCEPT !.out = out, !.ran = TRUE,
                   !.exit = <<IF out.err # "" THEN 1
                              ELSE IF out.Status # StatusCompleted THEN 1 ELSE 0>>]

Exit(out) ==
    /\ pc = "cmd"
    /\ cmd.exit = <<>>
    /\ cmd.mode = "eval" => Len(cmd.results) = Len(cmd.cases) /\ out = LoadFailure
    /\ cmd.mode = "goal" => out # LoadFailure
    /\ cmd' = runAgentCommand(cmd, out)
    /\ UNCHANGED <<RunnerVars, ctx, store, fs, skill>>

AgentNext ==
    \/ \E out \in RunOutcomes : RunEval(out)
    \/ \E out \in RunOutcomes \cup {LoadFailure} : Exit(out)

AgentSpec == AgentInit /\ [][AgentNext]_vars

(* C25: evaluateCase passes a case exactly when the run's status is         *)
(* completed, every non-empty must_contain string occurs in the trimmed     *)
(* last assistant response as a substring regardless of case, and no        *)
(* non-empty must_not_contain string does.                                  *)
C25_EvaluateCase ==
    \A i \in 1..Len(cmd.results) :
        LET res == cmd.results[i]
            c == res.case
            text == TrimSpace(res.out.text)
        IN (res.ran /\ res.out.err = "") =>
              (res.Passed <=>
                  /\ res.out.Status = StatusCompleted
                  /\ \A k \in 1..Len(c.MustContain) :
                        c.MustContain[k] # <<>> => ContainsFold(text, c.MustContain[k])
                  /\ \A k \in 1..Len(c.MustNotContain) :
                        c.MustNotContain[k] # <<>> => ~ContainsFold(text, c.MustNotContain[k]))

(* A case passed on a text that holds its required string in another case   *)
(* of letters, its empty strings skipped; and a case failed on a forbidden  *)
(* string in another case of letters.                                       *)
C25_Witness ==
    /\ Len(cmd.results) = 2
    /\ cmd.results[1].Passed
    /\ cmd.results[1].case.MustContain = <<<<>>, <<"h", "i">>>>
    /\ cmd.results[1].out.text = <<"O", "k", " ", "H", "i">>
    /\ ~cmd.results[2].Passed
    /\ cmd.results[2].out.Status = StatusCompleted
    /\ cmd.results[2].case.MustNotContain = <<<<"m">>, <<"H", "I">>>>
    /\ cmd.results[2].out.text = <<"O", "k", " ", "H", "i">>

(* C26: an eval result whose run did not end completed - a run that failed  *)
(* on a provider request error included - has the reason status=<status>    *)
(* with the run's final status; a completed run has the first failing       *)
(* check as its reason, must_contain before must_not_contain, and "ok"      *)
(* exactly when the case passes.                                            *)
C26_EvalReasons ==
    \A i \in 1..Len(cmd.results) :
        LET res == cmd.results[i]
            c == res.case
            text == TrimSpace(res.out.text)
            missing == {k \in 1..Len(c.MustContain) :
                           c.MustContain[k] # <<>> /\ ~ContainsFold(text, c.MustContain[k])}
            present == {k \in 1..Len(c.MustNotContain) :
                           c.MustNotContain[k] # <<>> /\ ContainsFold(text, c.MustNotContain[k])}
        IN res.ran =>
              /\ res.Status = res.out.Status
              /\ res.out.Status # StatusCompleted =>
                    res.Reason = Sprintf("status=%s", res.out.Status)
              /\ (res.out.Status = StatusCompleted /\ missing # {}) =>
                    /\ res.Reason.format = "missing required text: %q"
                    /\ \E k \in missing : /\ res.Reason.arg = c.MustContain[k]
                                          /\ \A j \in missing : k <= j
              /\ (res.out.Status = StatusCompleted /\ missing = {} /\ present # {}) =>
                    /\ res.Reason.format = "contains forbidden text: %q"
                    /\ \E k \in present : /\ res.Reason.arg = c.MustNotContain[k]
                                          /\ \A j \in present : k <= j
              /\ res.Reason = Sprintf("ok", "") <=> res.Passed

(* C27: the agent command exits with 0 exactly when the run it drove for    *)
(* --goal or --resume came back completed, or when every case of --eval     *)
(* passed; any other end - another terminal status, a failed case, a        *)
(* Resume that failed, no goal - exits with 1.                              *)
C27_ExitStatus ==
    cmd.exit # <<>> =>
        /\ cmd.exit \in {<<0>>, <<1>>}
        /\ cmd.mode \in {"goal", "resume"} =>
              (cmd.exit = <<0>> <=>
                  cmd.ran /\ cmd.out.hasState /\ cmd.out.Status = StatusCompleted)
        /\ cmd.mode = "eval" =>
              (cmd.exit = <<0>> <=> \A i \in 1..Len(cmd.results) : cmd.results[i].Passed)

(* An eval of two cases, the first passed, the second stopped without      *)
(* progress: exit status 1.                                                 *)
C27_Witness ==
    /\ cmd.mode = "eval"
    /\ cmd.exit = <<1>>
    /\ Len(cmd.results) = 2
    /\ cmd.results[1].Passed
    /\ cmd.results[2].Status = StatusNoProgressStopped

----------------------------------------------------------------------------
(* skills.ValidateSkillDefinition (validation.go)                           *)

(* A value of a map[string]interface{}: its Go type, and what it holds.     *)
(* "string" a string, "map" a map[string]interface{} (a function from keys  *)
(* to values), "[]string" and "[]interface{}" slices, "float64" a number,   *)
(* "nil" an untyped nil or a key that is not there.                         *)
JSON(type, holds) == [type |-> type, holds |-> holds]

(* skillNamePattern.MatchString: ^[a-zA-Z0-9_-]{1,64}$ *)
skillNamePattern(name) ==
    /\ Len(name) \in 1..64
    /\ \A i \in 1..Len(name) :
          name[i] \in { "a", "b", "c", "d", "e", "f", "g", "h", "i", "j", "k", "l", "m",
                        "n", "o", "p", "q", "r", "s", "t", "u", "v", "w", "x", "y", "z",
                        "A", "B", "C", "D", "E", "F", "G", "H", "I", "J", "K", "L", "M",
                        "N", "O", "P", "Q", "R", "S", "T", "U", "V", "W", "X", "Y", "Z",
                        "0", "1", "2", "3", "4", "5", "6", "7", "8", "9", "_", "-" }

(* ValidateSkillDefinition(skill): the errors it may return, "" for nil.    *)
(* Which property a range over the properties map complains about first is *)
(* up to the map's iteration order.                                         *)
ValidateSkillDefinition(s) ==
    LET allowedJSONTypes == {"string", "number", "integer", "boolean", "object", "array"}
        Get(m, key) == IF key \in DOMAIN m THEN m[key] ELSE JSON("nil", <<>>)
        name == TrimSpace(s.Name)
        paramType == Get(s.Parameters.holds, "type")
        propertiesRaw == Get(s.Parameters.holds, "properties")
        properties == propertiesRaw.holds
        propErr(propName) ==
            LET propRaw == properties[propName]
                propType == Get(propRaw.holds, "type")
            IN IF propRaw.type # "map" THEN "property '%s' must be an object"
               ELSE IF propType.type # "string" \/ propType.holds = ""
               THEN "property '%s' must define a string type"
               ELSE IF propType.holds \notin allowedJSONTypes
               THEN "property '%s' has unsupported type '%s'"
               ELSE ""
        requiredRaw == Get(s.Parameters.holds, "required")
        (* parseRequiredFields: the fields, or the error *)
        parseRequiredFields ==
            IF requiredRaw.type = "nil" THEN [fields |-> <<>>, err |-> ""]
            ELSE IF requiredRaw.type = "[]string"
            THEN [fields |-> requiredRaw.holds, err |-> ""]
            ELSE IF requiredRaw.type = "[]interface{}"
            THEN IF \E i \in 1..Len(requiredRaw.holds) :
                       requiredRaw.holds[i].type # "string"
                 THEN [fields |-> <<>>, err |-> "required[%d] must be a string"]
                 ELSE [fields |-> [i \in 1..Len(requiredRaw.holds) |->
                                      requiredRaw.holds[i].holds],
                       err |-> ""]
            ELSE [fields |-> <<>>,
                  err |-> "skill parameters.required must be an array of strings"]
        requiredFields == parseRequiredFields.fields
    IN IF name = <<>> THEN {"skill name is required"}
       ELSE IF ~skillNamePattern(name) THEN {"skill name must match %s"}
       ELSE IF TrimSpace(s.Description) = <<>> THEN {"skill description is required"}
       ELSE IF s.Parameters.type = "nil" THEN {"skill parameters are required"}
       ELSE IF paramType.type # "string" \/ paramType.holds # "object"
       THEN {"skill parameters.type must be 'object'"}
       ELSE IF "properties" \notin DOMAIN s.Parameters.holds
       THEN {"skill parameters.properties is required"}
       ELSE IF propertiesRaw.type # "map"
       THEN {"skill parameters.properties must be an object"}
       ELSE IF \E propName \in DOMAIN properties : propErr(propName) # ""
       THEN {propErr(propName) : propName \in DOMAIN properties} \ {""}
       ELSE IF parseRequiredFields.err # "" THEN {parseRequiredFields.err}
       ELSE IF \E i \in 1..Len(requiredFields) : requiredFields[i] \notin DOMAIN properties
       THEN {"required field '%s' is not declared in properties"}
       ELSE {""}

(* The skills handed in: names, descriptions and parameter schemas, each    *)
(* part well-formed or broken in one way.                                   *)
SkillInit ==
    /\ OnItsOwn("skill")
    /\ store = <<>>
    /\ fs = <<>>
    /\ cmd = <<>>
    /\ LET Str(v) == JSON("string", v)
           Map(f) == JSON("map", f)
           Input(type) == [input |-> Map([type |-> type])]
           Names == { <<"t", "_", "1">>, <<"T", "-", "s">>, <<" ", "t", " ">>, <<>>,
                      <<" ">>, <<"t", "!">>, <<"t", " ", "s">>,
                      [i \in 1..64 |-> "a"], [i \in 1..65 |-> "a"] }
           Descriptions == { <<"d">>, <<>>, <<" ">> }
           Properties ==
               { Map(Input(Str("string"))), Map(Input(Str("array"))), Map(<<>>),
                 Map(Input(Str("text"))), Map(Input(Str(""))),
                 Map(Input(JSON("float64", 1))), Map([input |-> Map(<<>>)]),
                 Map([input |-> Str("string")]),
                 Map([input |-> Map([type |-> Str("integer")]),
                      other |-> Map([type |-> Str("text")]),
                      third |-> Str("boolean")]),
                 Str("input") }
           Requireds ==
               { JSON("nil", <<>>), JSON("[]string", <<>>), JSON("[]string", <<"input">>),
                 JSON("[]string", <<"missing_field">>),
                 JSON("[]string", <<"input", "input">>),
                 JSON("[]interface{}", <<Str("input")>>),
                 JSON("[]interface{}", <<Str("input"), Str("input")>>),
                 JSON("[]interface{}", <<Str("input"), JSON("float64", 1)>>),
                 Str("input") }
           Parameters ==
               { JSON("nil", <<>>), Map(<<>>),
                 Map([properties |-> Map(Input(Str("string")))]),
                 Map([type |-> Str("array"), properties |-> Map(Input(Str("string")))]),
                 Map([type |-> JSON("float64", 1),
                      properties |-> Map(Input(Str("string")))]),
                 Map([type |-> Str("object")]) }
               \cup { Map([type |-> Str("object"), properties |-> p]) :
                         p \in Properties }
               \cup { Map([type |-> Str("object"), properties |-> p, required |-> r]) :
                         p \in {Map(Input(Str("string"))), Map(<<>>)}, r \in Requireds }
       IN \E name \in Names, description \in Descriptions, parameters \in Parameters :
             skill = [Name |-> name, Description |-> description,
                      Parameters |-> parameters, validated |-> FALSE, err |-> ""]

Validate ==
    /\ pc = "skill"
    /\ ~skill.validated
    /\ \E err \in ValidateSkillDefinition(skill) :
          skill' = [skill EXCEPT !.validated = TRUE, !.err = err]
    /\ UNCHANGED <<RunnerVars, ctx, store, fs, cmd>>

SkillSpec == SkillInit /\ [][Validate]_vars

(* C28: ValidateSkillDefinition accepts a skill exactly when its name       *)
(* matches ^[A-Za-z0-9_-]{1,64}$, its description is not empty, parameters  *)
(* has type "object" and a properties object, every property is an object   *)
(* with one of the six types, and required, if there, is a list of strings  *)
(* without duplicates that name declared properties.                        *)
C28_ValidateSkillDefinition ==
    LET p == skill.Parameters.holds
        has(m, key) == key \in DOMAIN m /\ m[key].type # "nil"
        isString(v) == v.type = "string"
        fields == IF p.required.type = "[]string" THEN p.required.holds
                  ELSE [i \in 1..Len(p.required.holds) |-> p.required.holds[i].holds]
        wellFormed ==
            /\ skillNamePattern(skill.Name)
            /\ skill.Description # <<>>
            /\ skill.Parameters.type = "map"
            /\ has(p, "type") /\ p.type = JSON("string", "object")
            /\ has(p, "properties") /\ p.properties.type = "map"
            /\ \A n \in DOMAIN p.properties.holds :
                  LET prop == p.properties.holds[n]
                  IN /\ prop.type = "map"
                     /\ has(prop.holds, "type")
                     /\ isString(prop.holds.type)
                     /\ prop.holds.type.holds \in
                           {"string", "number", "integer", "boolean", "object", "array"}
            /\ has(p, "required") =>
                  /\ p.required.type \in {"[]string", "[]interface{}"}
                  /\ p.required.type = "[]interface{}" =>
                        \A i \in 1..Len(p.required.holds) : isString(p.required.holds[i])
                  /\ \A i, j \in 1..Len(fields) : fields[i] = fields[j] => i = j
                  /\ \A i \in 1..Len(fields) : fields[i] \in DOMAIN p.properties.holds
    IN skill.validated => (skill.err = "" <=> wellFormed)

(* C29: the chat surface executes the calls of a batch one at a time in     *)
(* batch order - at most one ExecuteSkill is outstanding, and it is the     *)
(* call whose predecessors all have their Tool message - sends no request   *)
(* while results are outstanding, and sends exactly one follow-up request   *)
(* after the last result, when the history ends with the Assistant message  *)
(* carrying the N tool_calls and their N Tool messages in batch order.      *)
C29_ChatBatchSequential ==
    (pc = "chat" /\ chat.batches > 0) =>
        LET tools == TrailingTools(chat.messages).tools
            batch == chat.messages[Len(chat.messages) - Len(tools)]
            N == Len(batch.ToolCalls)
            started == Len(chat.executeCalls)
            answered == Count(chat.messages,
                              LAMBDA m : m.Role = "tool" /\ ~ChatBadCall(m.ToolCallID))
        IN /\ batch.Role = "assistant"
           /\ Len(tools) + Len(chat.pending) = N
           /\ \A j \in 1..Len(tools) : tools[j].ToolCallID = batch.ToolCalls[j].ID
           /\ \A j \in 1..Len(chat.pending) :
                 chat.pending[j].ToolCallID = batch.ToolCalls[Len(tools) + j].ID
           /\ chat.inFlight <=> chat.pending # <<>>
           /\ started - answered \in {0, 1}
           /\ started - answered = 1 =>
                 /\ chat.inFlight
                 /\ chat.executeCalls[started].toolCallID = chat.pending[1].ToolCallID
           /\ chat.sendCalls = chat.batches - (IF chat.inFlight THEN 1 ELSE 0)

(* Both calls of a batch of two have their results, the second run by       *)
(* ExecuteSkill after the first, and the one follow-up request is out.      *)
C29_Witness ==
    /\ pc = "chat"
    /\ chat.batches = 1
    /\ ~chat.inFlight
    /\ chat.sendCalls = 1
    /\ Len(chat.executeCalls) = 2
    /\ Len(TrailingTools(chat.messages).tools) = 2

----------------------------------------------------------------------------
(* The chat surface in claw mode: config.RuntimeMode and                    *)
(* config.ClawMaxToolIterations, the user's messages, the safety stop.      *)

(* AppModel.SetConfig on a chat that has not started *)
SetConfig(mode, cap) ==
    /\ pc = "chat"
    /\ chat = NoChat
    /\ chat' = [chat EXCEPT !.mode = mode, !.cap = cap]
    /\ NoSave
    /\ UNCHANGED <<options, state, pc, result, toolCalls, idx, ret, sent,
                   countAtSend, executed, requests, callRequests,
                   entryTurn, resumes, resumed, Apart>>

(* AppModel.Update on SendMessageMsg: the user's message goes to the        *)
(* provider, and the count of tool iterations starts again.                 *)
ChatSendMessage ==
    /\ pc = "chat"
    /\ ~chat.inFlight
    /\ chat.cap > 0
    /\ chat.users < MaxUserMessages
    /\ chat' = [chat EXCEPT
          !.messages = Append(@, ChatMessage("user", TextContent(<<"g">>), <<>>, "", "")),
          !.sendCalls = @ + 1,
          !.iterations = 0,
          !.users = @ + 1]
    /\ NoSave
    /\ UNCHANGED <<options, state, pc, result, toolCalls, idx, ret, sent,
                   countAtSend, executed, requests, callRequests,
                   entryTurn, resumes, resumed, Apart>>

(* AppModel.Update on a SkillCallBatchMsg that arrives in claw mode with    *)
(* the cap reached: "Claw mode stopped repeated tool calls".                *)
ClawSafetyStop ==
    /\ pc = "chat"
    /\ ~chat.inFlight
    /\ chat.mode = "claw"
    /\ chat.iterations >= chat.cap
    /\ chat.stops < MaxChatBatches
    /\ chat' = [chat EXCEPT
          !.messages = Append(@, ChatMessage("system",
                                   TextContent(<<"C", "l", "a", "w", " ", "s", "t", "o", "p">>),
                                   <<>>, "", "")),
          !.stops = @ + 1]
    /\ NoSave
    /\ UNCHANGED <<options, state, pc, result, toolCalls, idx, ret, sent,
                   countAtSend, executed, requests, callRequests,
                   entryTurn, resumes, resumed, Apart>>

(* The chat surface alone: a process that is the agent command stays idle. *)
ClawSpec ==
    /\ Init
    /\ [][\/ \E mode \in {"classic", "claw"}, cap \in 1..2 : SetConfig(mode, cap)
          \/ ChatSendMessage
          \/ \E b \in ChatBatches : ChatBatch(b)
          \/ ChatSkillResult
          \/ ClawSafetyStop]_vars

(* C30: in claw mode with cap C, once C batches have been executed since    *)
(* the last user message, the next thing the chat does is either take a     *)
(* user message or stop a further batch: no tool is executed, a System      *)
(* message is appended.  Below the cap, and in classic mode whatever the    *)
(* cap, a batch is executed and no System message is ever appended.         *)
C30_ClawSafetyStop ==
    [][(pc = "chat" /\ ~chat.inFlight /\ chat.cap > 0 /\ chat'.messages # chat.messages) =>
          LET last == chat'.messages[Len(chat'.messages)]
              (* tool-call batches in msgs after the last user message *)
              BatchesSinceUser(msgs) ==
                  Cardinality({i \in 1..Len(msgs) :
                                  /\ msgs[i].Role = "assistant" /\ msgs[i].ToolCalls # <<>>
                                  /\ \A j \in i..Len(msgs) : msgs[j].Role # "user"})
          IN /\ Len(chat'.messages) = Len(chat.messages) + 1
             /\ IF chat.mode = "claw" /\ BatchesSinceUser(chat.messages) >= chat.cap
                THEN /\ last.Role \in {"user", "system"}
                     /\ chat'.executeCalls = chat.executeCalls
                     /\ ~chat'.inFlight
                ELSE /\ last.Role \in {"user", "assistant"}
                     /\ last.Role = "assistant" =>
                           /\ chat'.inFlight
                           /\ chat'.pending # <<>>
                           /\ chat'.pending[1].ParseError = "" =>
                                 Len(chat'.executeCalls) = Len(chat.executeCalls) + 1]_vars

(* Claw mode, cap 1: the first batch was executed, a second one was        *)
(* stopped, the user wrote again, and the batch after that is executing.    *)
C30_Witness ==
    /\ pc = "chat"
    /\ chat.mode = "claw"
    /\ chat.cap = 1
    /\ chat.stops = 1
    /\ chat.batches = 2
    /\ chat.inFlight
    /\ Len(chat.executeCalls) = 2
    /\ \E i \in 1..Len(chat.messages) :
          /\ chat.messages[i].Role = "system"
          /\ \E j \in (i + 1)..Len(chat.messages) : chat.messages[j].Role = "user"

(* C31, as the code has it: with max_turns = 1, a fresh run whose provider  *)
(* answers the first request without tool calls and without the marker      *)
(* sends that one request only and stays at turn 1; it ends completed when   *)
(* the marker is not required and the trimmed text is not empty, and         *)
(* otherwise no_progress_stopped with max_consecutive_no_tool_turns = 1 and  *)
(* max_turns_reached with a larger limit.                                    *)
C31_OneTurn ==
    LET am == AssistantMessages(state.Messages) IN
    (/\ resumes = 0
     /\ state.Options.MaxTurns = 1
     /\ Len(am) >= 1
     /\ IdleAnswer(am[1], state.Options)) =>
        /\ Len(am) = 1
        /\ callRequests = 1
        /\ state.Turn = 1
        /\ pc \in {"head", "returned"}
        /\ pc = "returned" =>
              /\ ret.hasState /\ ret.err = ""
              /\ state.Status =
                    IF /\ ~state.Options.RequireCompletionMarker
                       /\ TrimSpace(am[1].Content.text) # <<>>
                    THEN StatusCompleted
                    ELSE IF state.Options.MaxConsecutiveNoToolTurns = 1
                    THEN StatusNoProgressStopped
                    ELSE StatusMaxTurnsReached

(* max_turns = 1, limit 1, marker required: stopped for lack of progress    *)
(* after the one request.                                                    *)
C31_Witness ==
    /\ resumes = 0
    /\ pc = "returned"
    /\ state.Options.MaxTurns = 1
    /\ state.Options.MaxConsecutiveNoToolTurns = 1
    /\ state.Status = StatusNoProgressStopped
    /\ state.Turn = 1
    /\ callRequests = 1

(* C31 as stated: with max_consecutive_no_tool_turns = 1 the one-turn run   *)
(* always ends no_progress_stopped.                                          *)
C31_OneTurnNoProgress ==
    LET am == AssistantMessages(state.Messages) IN
    (/\ resumes = 0
     /\ state.Options.MaxTurns = 1
     /\ Len(am) >= 1
     /\ IdleAnswer(am[1], state.Options)
     /\ pc = "returned") =>
        /\ callRequests = 1
        /\ state.Turn = 1
        /\ state.Options.MaxConsecutiveNoToolTurns = 1 =>
              state.Status = StatusNoProgressStopped

(* C33: consecutive_no_tool_turns is the number of tool-less turns that did *)
(* not complete the run since the latest turn with tool calls, or since the *)
(* start of the run: a turn with tool calls sets it to 0, and only a        *)
(* tool-less turn that does not complete the run adds 1.                    *)
C33_NoToolCounter ==
    LET am == AssistantMessages(state.Messages)
        lastTools == IF \E i \in 1..Len(am) : am[i].ToolCalls # <<>>
                     THEN CHOOSE i \in 1..Len(am) :
                             /\ am[i].ToolCalls # <<>>
                             /\ \A j \in (i + 1)..Len(am) : am[j].ToolCalls = <<>>
                     ELSE 0
        idle == {i \in (lastTools + 1)..Len(am) :
                    ~isCompletionResponse(am[i].Content.text, state.Options)}
    IN pc \in {"idle", "head", "request", "tools", "returned"} =>
          state.ConsecutiveNoToolTurns = Cardinality(idle)

(* C35: completed, failed, max_turns_reached and no_progress_stopped are    *)
(* absorbing: a Resume of a checkpoint with one of these statuses leaves    *)
(* the run's status, turn and messages as loaded and sends no request.      *)
C35_TerminalAbsorbing ==
    (/\ resumes > 0
     /\ state.RunID # ""
     /\ resumed.Status \in {StatusCompleted, StatusFailed, StatusMaxTurnsReached,
                            StatusNoProgressStopped}) =>
        /\ state.Status = resumed.Status
        /\ state.Turn = resumed.Turn
        /\ state.Messages = resumed.Messages
        /\ callRequests = 0

(* C37: the error field is non-empty only when the status is failed, in the *)
(* state of the run and in its checkpoint; a run that ends completed,       *)
(* max_turns_reached or no_progress_stopped carries no error, also when a   *)
(* Resume continued it after a failed attempt.                              *)
C37_ErrorOnlyWhenFailed ==
    /\ state.Error # "" => state.Status = StatusFailed
    /\ disk.kind = "ok" => (disk.data.Error # "" => disk.data.Status = StatusFailed)

----------------------------------------------------------------------------
(* RunGoal and Resume under a Runner that keeps running: the provider and   *)
(* the tools return, so the step runState is at is eventually taken.        *)
LiveSpec ==
    /\ SaveInit
    /\ [][SaveNext \/ ResumeLoadFails \/ Resume]_vars
    /\ WF_vars(SaveNext \/ ResumeLoadFails \/ Resume)

(* C36: every RunGoal with a goal and every Resume of a checkpoint that     *)
(* loads returns, whatever the provider and the tools hand back, and the    *)
(* state it returns has a terminal status, never running.                   *)
C36_Terminates ==
    /\ [](pc = "returned" /\ ret.hasState =>
             state.Status \in {StatusCompleted, StatusFailed, StatusMaxTurnsReached,
                               StatusNoProgressStopped})
    /\ (pc \in {"head", "request", "tools"}) ~> (pc = "returned" /\ ret.hasState)

(* A Resume of a checkpoint that was still running has returned completed.  *)
C36_Witness ==
    /\ pc = "returned"
    /\ ret.op = "Resume"
    /\ ret.hasState
    /\ resumed.Status = StatusRunning
    /\ state.Status = StatusCompleted

(* C34: Save is atomic: whatever happens to a Save, the file <run_id>.json  *)
(* is absent or decodes to a complete state that was handed to Save - the   *)
(* latest one when that Save succeeded - so Load of a run the Runner has    *)
(* checkpointed never fails on a corrupt file.                              *)
C34_SaveAtomic ==
    /\ disk.kind \in {"none", "ok"}
    /\ disk.kind = "ok" => lastSaved.called
    /\ (lastSaved.called /\ lastSaved.outcome = "ok") =>
          disk = [kind |-> "ok", data |-> lastSaved.st]
    /\ lastSaved.called => LoadError("run-1", disk) \in {"", LoadError("run-1", NoFile)}

(* C38: dev_search_files returns at most R' matches, R' being max_results   *)
(* clamped (not given or not positive: 100, above 1000: 1000): the first    *)
(* R' matching lines in walk order, .git subtrees left out; truncated is    *)
(* true when there are more matching lines than were returned and false     *)
(* when every matching line was returned.                                   *)
C38_SearchMaxResults ==
    (fs.op.name = "dev_search_files" /\ fs.op.err = "") =>
        LET a == fs.op.args
            R == IF a.max_results = <<>> THEN 100
                 ELSE IF a.max_results[1] <= 0 THEN 100
                 ELSE IF a.max_results[1] > 1000 THEN 1000
                 ELSE a.max_results[1]
            root == Real(fs, resolveWorkspacePath(Workspace, fs.op.input).path.segs)
            walk == WalkDir(fs, root)
            matching == SelectSeq(walk,
                           LAMBDA f : IF a.case_sensitive
                                      THEN Contains(fs.files[f], a.pattern)
                                      ELSE Contains(ToLower(fs.files[f]), ToLower(a.pattern)))
            m == fs.op.matches
        IN /\ Len(m) <= R
           /\ Len(m) = IF Len(matching) <= R THEN Len(matching) ELSE R
           /\ m = SubSeq(matching, 1, Len(m))
           /\ \A i \in 1..Len(m) : \A j \in 1..Len(m[i]) : m[i][j] # ".git"
           /\ fs.op.truncated <=> Len(matching) > Len(m)

----------------------------------------------------------------------------
(* agent.LoadEvalCases (eval.go)                                            *)

(* An eval file holding the list of cases `list`, as the suite object       *)
(* {"cases": list} or as the bare array: cmd.file is the JSON document, a   *)
(* case an object with goal, with max_turns when it is not 0, and with      *)
(* must_contain and must_not_contain when they are not empty.               *)
EvalFileInit ==
    /\ OnItsOwn("load")
    /\ store = <<>>
    /\ fs = <<>>
    /\ skill = <<>>
    /\ \E n \in 0..MaxCases, form \in {"suite", "array"} :
          \E list \in [1..n -> EvalCases] :
             LET Strings(ss) == JSON("[]interface{}", [i \in 1..Len(ss) |-> JSON("string", ss[i])])
                 Members(c) ==
                     {<<"goal", JSON("string", c.Goal)>>}
                     \cup (IF c.MaxTurns # 0
                           THEN {<<"max_turns", JSON("float64", c.MaxTurns)>>} ELSE {})
                     \cup (IF c.MustContain # <<>>
                           THEN {<<"must_contain", Strings(c.MustContain)>>} ELSE {})
                     \cup (IF c.MustNotContain # <<>>
                           THEN {<<"must_not_contain", Strings(c.MustNotContain)>>} ELSE {})
                 Object(ms) == JSON("map", [k \in {m[1] : m \in ms} |->
                                               (CHOOSE m \in ms : m[1] = k)[2]])
                 array == JSON("[]interface{}", [i \in 1..n |-> Object(Members(list[i]))])
             IN cmd = [form |-> form, list |-> list,
                       file |-> IF form = "suite" THEN Object({<<"cases", array>>}) ELSE array,
                       called |-> FALSE, cases |-> <<>>, err |-> ""]

(* LoadEvalCases(path) on a file that can be read: json.Unmarshal into an   *)
(* EvalSuite, whose cases are returned when there is at least one, and      *)
(* otherwise json.Unmarshal into a []EvalCase. Unmarshal leaves a field     *)
(* whose key is missing at its zero value and fails on a document that is   *)
(* not of the target's kind.                                                 *)
LoadEvalCases ==
    /\ pc = "load"
    /\ ~cmd.called
    /\ LET Strings(v) == [i \in 1..Len(v.holds) |-> v.holds[i].holds]
           Case(o) ==
               EvalCase(IF "goal" \in DOMAIN o.holds THEN o.holds["goal"].holds ELSE <<>>,
                        IF "max_turns" \in DOMAIN o.holds
                        THEN o.holds["max_turns"].holds ELSE 0,
                        IF "must_contain" \in DOMAIN o.holds
                        THEN Strings(o.holds["must_contain"]) ELSE <<>>,
                        IF "must_not_contain" \in DOMAIN o.holds
                        THEN Strings(o.holds["must_not_contain"]) ELSE <<>>)
           Cases(v) == [i \in 1..Len(v.holds) |-> Case(v.holds[i])]
           data == cmd.file
           suite == IF data.type # "map"
                    THEN [Cases |-> <<>>,
                          err |-> "json: cannot unmarshal array into Go value of type agent.EvalSuite"]
                    ELSE [Cases |-> IF "cases" \in DOMAIN data.holds
                                    THEN Cases(data.holds["cases"]) ELSE <<>>,
                          err |-> ""]
           direct == IF data.type # "[]interface{}"
                     THEN [cases |-> <<>>,
                           err |-> "parse eval file: json: cannot unmarshal object into Go value of type []agent.EvalCase"]
                     ELSE [cases |-> Cases(data), err |-> ""]
       IN cmd' = IF suite.err = "" /\ Len(suite.Cases) > 0
                 THEN [cmd EXCEPT !.called = TRUE, !.cases = suite.Cases]
                 ELSE [cmd EXCEPT !.called = TRUE, !.cases = direct.cases,
                                  !.err = direct.err]
    /\ UNCHANGED <<RunnerVars, ctx, store, fs, skill>>

EvalFileSpec == EvalFileInit /\ [][LoadEvalCases]_vars

(* C39: for every list of eval cases, the empty list included,              *)
(* LoadEvalCases returns exactly the list, without error, for a file        *)
(* holding the suite object {"cases": list} and for a file holding the      *)
(* bare array.                                                              *)
C39_LoadEvalCases ==
    (pc = "load" /\ cmd.called) => (cmd.err = "" /\ cmd.cases = cmd.list)

(* C40: RunEval runs the cases independently: one result per case, in the   *)
(* order of the cases; a case runs whatever became of the cases before it;  *)
(* each run starts from a fresh history and fresh counters; checkpoints are *)
(* disabled and max_turns overridden for the one case only, a case without  *)
(* max_turns running with the Runner's max_turns; and the Runner's options  *)
(* are what they were.                                                      *)
C40_RunEvalIndependent ==
    (pc = "cmd" /\ cmd.mode = "eval") =>
        /\ Len(cmd.results) <= Len(cmd.cases)
        /\ cmd.exit # <<>> => Len(cmd.results) = Len(cmd.cases)
        /\ cmd.options = DefaultOptions
        /\ \A i \in 1..Len(cmd.results) :
              LET res == cmd.results[i]
                  c == cmd.cases[i]
              IN /\ res.case = c
                 /\ res.ran <=> TrimSpace(c.Goal) # <<>>
                 /\ res.ran =>
                       /\ Len(res.start.Messages) = 1
                       /\ res.start.Messages[1].Role = "user"
                       /\ res.start.Messages[1].Content = TextContent(TrimSpace(c.Goal))
                       /\ res.start.Turn = 0
                       /\ res.start.ToolCallCount = 0
                       /\ res.start.ConsecutiveNoToolTurns = 0
                       /\ res.start.LastAssistantResponse = <<>>
                       /\ res.start.Error = ""
                       /\ res.start.Status = StatusRunning
                       /\ res.start.Options.DisableCheckpoints
                       /\ res.start.Options.MaxTurns =
                             IF c.MaxTurns > 0 THEN c.MaxTurns ELSE DefaultOptions.MaxTurns
                       /\ [res.start.Options EXCEPT !.DisableCheckpoints = FALSE,
                                                    !.MaxTurns = DefaultOptions.MaxTurns]
                             = DefaultOptions

(* An eval that ended after two cases: the first with max_turns 1, its run  *)
(* failed on the provider; the second without max_turns, run with the       *)
(* Runner's.                                                                *)
C40_Witness ==
    /\ pc = "cmd"
    /\ cmd.mode = "eval"
    /\ cmd.exit # <<>>
    /\ Len(cmd.results) = 2
    /\ cmd.cases[1].MaxTurns = 1
    /\ cmd.results[1].start.Options.MaxTurns = 1
    /\ cmd.results[1].out.Status = StatusFailed
    /\ cmd.cases[2].MaxTurns = 0
    /\ cmd.results[2].ran
    /\ cmd.results[2].start.Options.MaxTurns = DefaultOptions.MaxTurns

----------------------------------------------------------------------------
(* run (app_run.go): the dispatch of the command line                       *)

(* The command line of one call of run, of at most MaxArgs arguments, and   *)
(* the commandRunner it is given, which notes the method called last and    *)
(* its argument (for RunSingleMessage: the words that were joined).         *)
RunInit ==
    /\ OnItsOwn("run")
    /\ store = <<>>
    /\ fs = <<>>
    /\ skill = <<>>
    /\ \E n \in 0..MaxArgs :
          \E args \in [1..n -> {"agent", "chat", "message", "sessions", "-config", "-mode",
                                "-mode=claw", "--goal"}] :
             cmd = [args |-> args, filtered |-> <<>>, configName |-> "",
                    runtimeModeOverride |-> "", usageCalled |-> FALSE, lastCall |-> "",
                    lastArgs |-> <<>>, stdout |-> "", stderr |-> "", code |-> <<>>]

(* run(args, runner, stdout, stderr) with extractGlobalFlags. Of the flags  *)
(* with a value in the same word, -mode=claw stands for all; the words of   *)
(* the model are in lower case and without blanks, as ToLower and TrimSpace *)
(* leave them.                                                              *)
run ==
    /\ pc = "run"
    /\ cmd.code = <<>>
    /\ LET RECURSIVE extractGlobalFlags(_, _)
           extractGlobalFlags(i, acc) ==
               IF i > Len(cmd.args) THEN acc
               ELSE IF cmd.args[i] = "-config" /\ i + 1 <= Len(cmd.args)
               THEN extractGlobalFlags(i + 2, [acc EXCEPT !.configName = cmd.args[i + 1]])
               ELSE IF cmd.args[i] = "-mode" /\ i + 1 <= Len(cmd.args)
               THEN extractGlobalFlags(i + 2,
                                       [acc EXCEPT !.runtimeModeOverride = cmd.args[i + 1]])
               ELSE IF cmd.args[i] = "-mode=claw"
               THEN extractGlobalFlags(i + 1, [acc EXCEPT !.runtimeModeOverride = "claw"])
               ELSE extractGlobalFlags(i + 1,
                                       [acc EXCEPT !.filtered = Append(@, cmd.args[i])])
           c == extractGlobalFlags(1, [cmd EXCEPT !.filtered = <<>>, !.configName = "",
                                                  !.runtimeModeOverride = ""])
           args == c.filtered
           command == args[1]
           cmdArgs == Tail(args)
       IN cmd' =
            IF Len(args) < 1
            THEN [c EXCEPT !.usageCalled = TRUE, !.code = <<0>>]
            ELSE IF command = "chat"
            THEN [c EXCEPT !.lastCall = "chat", !.code = <<0>>]
            ELSE IF command \in {"message", "msg"}
            THEN IF Len(cmdArgs) < 1
                 THEN [c EXCEPT !.stderr = "Usage: celeste message <text>", !.code = <<1>>]
                 ELSE [c EXCEPT !.lastCall = "message", !.lastArgs = cmdArgs,
                                !.code = <<0>>]
            ELSE IF command \in {"config", "context", "stats", "export", "skill",
                                 "wallet-monitor", "skills", "providers", "collections"}
            THEN [c EXCEPT !.lastCall = command, !.lastArgs = cmdArgs, !.code = <<0>>]
            ELSE IF command \in {"session", "sessions"}
            THEN [c EXCEPT !.lastCall = "session", !.lastArgs = cmdArgs, !.code = <<0>>]
            ELSE IF command \in {"help", "-h", "--help"}
            THEN [c EXCEPT !.usageCalled = TRUE, !.code = <<0>>]
            ELSE IF command \in {"version", "-v", "--version"}
            THEN [c EXCEPT !.stdout = "Celeste CLI %s (%s)", !.code = <<0>>]
            ELSE [c EXCEPT !.lastCall = "message", !.lastArgs = args, !.code = <<0>>]
    /\ UNCHANGED <<RunnerVars, ctx, store, fs, skill>>

RunSpec == RunInit /\ [][run]_vars

(* C32: run(args) whose first argument after the global flags is "agent"    *)
(* calls the agent command runner with the arguments that follow it - not   *)
(* the single-message fallback of an unknown command -, writes nothing to   *)
(* stderr and returns 0, like every other known command.                    *)
C32_DispatchesAgent ==
    (pc = "run" /\ cmd.code # <<>> /\ cmd.filtered # <<>> /\ cmd.filtered[1] = "agent") =>
        /\ cmd.lastCall = "agent"
        /\ cmd.lastArgs = Tail(cmd.filtered)
        /\ cmd.stderr = ""
        /\ cmd.code = <<0>>

====
